---- MODULE Spec2Model ----
(***************************************************************************)
(* Generation-validation-retry loop of the debt-collection conversation    *)
(* generator: ConversationValidator and RetryManager (validation_system.py)*)
(* and the batch loop that drives them (jsonl_processor.py,                *)
(* conversation_generator.py).                                             *)
(*                                                                         *)
(* Python str values are TLA+ strings; TLC evaluates Len, SubSeq and \o on *)
(* them, so substring tests are computed character by character as the     *)
(* code computes them.  Python floats are exact rationals [n, d].          *)
(***************************************************************************)
EXTENDS Integers, Sequences, FiniteSets, TLC

-----------------------------------------------------------------------------
(* Python str operations                                                   *)

\* t in s
Contains(s, t) ==
    \E i \in 1..(Len(s) - Len(t) + 1) : SubSeq(s, i, i + Len(t) - 1) = t

\* s.startswith(t)
StartsWith(s, t) == Len(t) <= Len(s) /\ SubSeq(s, 1, Len(t)) = t

\* s.endswith(t)
EndsWith(s, t) == Len(t) <= Len(s) /\ SubSeq(s, Len(s) - Len(t) + 1, Len(s)) = t

UpperLetters == "ABCDEFGHIJKLMNOPQRSTUVWXYZ"

LowerLetters == "abcdefghijklmnopqrstuvwxyz"

LowerMap ==
    [c \in {SubSeq(UpperLetters, i, i) : i \in 1..26} |->
        LET i == CHOOSE j \in 1..26 : SubSeq(UpperLetters, j, j) = c
        IN  SubSeq(LowerLetters, i, i)]

\* s.lower(), ASCII letters
RECURSIVE Lower(_)
Lower(s) ==
    IF Len(s) = 0 THEN ""
    ELSE IF Len(s) = 1 THEN (IF s \in DOMAIN LowerMap THEN LowerMap[s] ELSE s)
    ELSE LET h == Len(s) \div 2
         IN  Lower(SubSeq(s, 1, h)) \o Lower(SubSeq(s, h + 1, Len(s)))

Whitespace == {" ", "\t", "\n", "\r"}

\* not s.strip()
IsBlank(s) == \A i \in 1..Len(s) : SubSeq(s, i, i) \in Whitespace

\* tag.strip("()")
RECURSIVE StripParens(_)
StripParens(s) ==
    IF Len(s) = 0 THEN s
    ELSE IF SubSeq(s, 1, 1) \in {"(", ")"} THEN StripParens(SubSeq(s, 2, Len(s)))
    ELSE IF SubSeq(s, Len(s), Len(s)) \in {"(", ")"}
         THEN StripParens(SubSeq(s, 1, Len(s) - 1))
    ELSE s

\* sep.join(parts)
RECURSIVE Join(_, _)
Join(sep, parts) ==
    IF Len(parts) = 0 THEN ""
    ELSE IF Len(parts) = 1 THEN parts[1]
    ELSE parts[1] \o sep \o Join(sep, Tail(parts))

\* dict.get(key, default)
Get(msg, key, default) == IF key \in DOMAIN msg THEN msg[key] ELSE default

-----------------------------------------------------------------------------
(* Python float arithmetic, as exact rationals in lowest terms             *)

RECURSIVE GCD(_, _)
GCD(a, b) == IF b = 0 THEN a ELSE GCD(b, a % b)

Abs(x) == IF x < 0 THEN -x ELSE x

Rat(n, d) ==
    LET g == GCD(Abs(n), d)
    IN  IF n = 0 THEN [n |-> 0, d |-> 1] ELSE [n |-> n \div g, d |-> d \div g]

RAdd(a, b) == Rat(a.n * b.d + b.n * a.d, a.d * b.d)

RSub(a, b) == Rat(a.n * b.d - b.n * a.d, a.d * b.d)

\* a / b for b > 0
RDiv(a, b) == Rat(a.n * b.d, a.d * b.n)

RLeq(a, b) == a.n * b.d <= b.n * a.d

RLt(a, b) == a.n * b.d < b.n * a.d

RMin(a, b) == IF RLeq(a, b) THEN a ELSE b

RMax(a, b) == IF RLeq(a, b) THEN b ELSE a

RECURSIVE RSum(_)
RSum(xs) == IF Len(xs) = 0 THEN Rat(0, 1) ELSE RAdd(xs[1], RSum(Tail(xs)))

-----------------------------------------------------------------------------
(* ConversationValidator.__init__                                          *)

\* a validator that does not know the (escalate) marker
special_tags_NoEscalate ==
    << "(disconnect)", "(transfer)", "(function_1)", "(function_2)", "(hold)",
       "(mute)", "(conference)", "(callback)" >>

special_tags ==
    << "(disconnect)", "(transfer)", "(function_1)", "(function_2)", "(hold)",
       "(mute)", "(conference)", "(callback)", "(escalate)" >>

quality_indicators ==
    << << "good morning", "good afternoon", "good evening", "thank you",
          "please", "may i", "i understand", "i appreciate", "professional",
          "courteous" >>,
       << "debt", "loan", "payment", "amount", "balance", "due", "overdue",
          "collection", "account" >>,
       << "recorded", "quality purposes", "verify", "confirm", "legal action",
          "credit bureau", "background check" >>,
       << "how are you", "i see", "i understand", "that's", "well",
          "actually", "really", "sure", "okay" >> >>

red_flags ==
    << "lorem ipsum", "placeholder", "example text", "sample conversation",
       "test message", "[insert", "{{", "}}" >>

-----------------------------------------------------------------------------
(* Conversations.  A turn is a dict, modelled as a record with its keys;   *)
(* a list element that is not a dict (a bare JSON string or number) is the *)
(* record [scalar |-> v], on which msg.get raises AttributeError.          *)

IsDict(msg) == "scalar" \notin DOMAIN msg

\* " ".join([msg.get("content", "") for msg in conversation]).lower()
FullText(conversation) ==
    Lower(Join(" ", [i \in 1..Len(conversation) |->
                        Get(conversation[i], "content", "")]))

\* the tag test that accepts the parenthesised form only
TagInContent_Exact(tag, content) == Contains(content, tag)

\* the tag test of _find_special_tags on one lower-cased content
TagInContent(tag, content) ==
    LET tag_name == StripParens(tag)
    IN  \/ Contains(content, tag)
        \/ Contains(content, "<" \o tag_name \o ">")
        \/ Contains(content, " " \o tag_name)
        \/ Contains(content, tag_name \o " ")
        \/ EndsWith(content, tag_name)
        \/ StartsWith(content, tag_name)

\* list(set(found_tags)): the order of the list depends on string hashing,
\* so the result is the set of its elements
_find_special_tags(conversation) ==
    {special_tags[t] : t \in
        {t \in 1..Len(special_tags) :
            \E i \in 1..Len(conversation) :
                TagInContent(special_tags[t],
                             Lower(Get(conversation[i], "content", "")))}}

\* the indicator score without the 30% threshold: the share of the
\* category's indicators that occur
_check_indicators_NoThreshold(conversation, indicators) ==
    LET full_text == FullText(conversation)
        found_count == Cardinality({i \in 1..Len(indicators) :
                                      Contains(full_text, indicators[i])})
    IN  RMin(Rat(1, 1), RDiv(Rat(found_count, 1), Rat(Len(indicators), 1)))

\* min(1.0, found_count / max(1, len(indicators) * 0.3))
_check_indicators(conversation, indicators) ==
    LET full_text == FullText(conversation)
        found_count == Cardinality({i \in 1..Len(indicators) :
                                      Contains(full_text, indicators[i])})
    IN  RMin(Rat(1, 1),
             RDiv(Rat(found_count, 1),
                  RMax(Rat(1, 1), Rat(Len(indicators) * 3, 10))))

\* a penalty of 0.1 for each red flag
_check_red_flags_Tenth(conversation) ==
    LET full_text == FullText(conversation)
        red_flag_count == Cardinality({i \in 1..Len(red_flags) :
                                         Contains(full_text, red_flags[i])})
    IN  Rat(red_flag_count, 10)

\* each red flag found in the text reduces the score by 0.3
_check_red_flags(conversation) ==
    LET full_text == FullText(conversation)
        red_flag_count == Cardinality({i \in 1..Len(red_flags) :
                                         Contains(full_text, red_flags[i])})
    IN  Rat(red_flag_count * 3, 10)

\* the alternation score without the test of the first role
_check_role_alternation_AnyStart(roles) ==
    IF Len(roles) = 0 THEN Rat(0, 1)
    ELSE LET alternation_violations ==
                 Cardinality({i \in 2..Len(roles) : roles[i] = roles[i - 1]})
         IN  RMax(Rat(0, 1),
                  RSub(Rat(1, 1), Rat(alternation_violations, Len(roles))))

_check_role_alternation(roles) ==
    IF Len(roles) = 0 THEN Rat(0, 1)
    ELSE IF roles[1] # "assistant" THEN Rat(1, 2)
    ELSE LET alternation_violations ==
                 Cardinality({i \in 2..Len(roles) : roles[i] = roles[i - 1]})
         IN  RMax(Rat(0, 1),
                  RSub(Rat(1, 1), Rat(alternation_violations, Len(roles))))

_check_message_lengths(conversation) ==
    LET lengths == [i \in 1..Len(conversation) |->
                       Len(Get(conversation[i], "content", ""))]
        too_short == Cardinality({i \in 1..Len(lengths) : lengths[i] < 10})
        too_long == Cardinality({i \in 1..Len(lengths) : lengths[i] > 500})
    IN  RMax(Rat(0, 1),
             RSub(Rat(1, 1), Rat(too_short + too_long, Len(lengths))))

_check_conversation_structure(conversation) ==
    IF Len(conversation) < 3 THEN Rat(2, 10)
    ELSE IF Len(conversation) > 30 THEN Rat(7, 10)
    ELSE LET roles == [i \in 1..Len(conversation) |->
                          Get(conversation[i], "role", "")]
         IN  RDiv(RAdd(_check_role_alternation(roles),
                       _check_message_lengths(conversation)),
                  Rat(2, 1))

\* the score without max(0.0, ...): the red-flag penalty is subtracted as
\* it is
_calculate_quality_score_Unclamped(conversation) ==
    LET scores == [c \in 1..Len(quality_indicators) |->
                      _check_indicators(conversation, quality_indicators[c])]
                  \o << _check_conversation_structure(conversation) >>
        red_flag_penalty == _check_red_flags(conversation)
        base_score == RDiv(RSum(scores), Rat(Len(scores), 1))
    IN  RMin(Rat(1, 1), RSub(base_score, red_flag_penalty))

_calculate_quality_score(conversation) ==
    LET scores == [c \in 1..Len(quality_indicators) |->
                      _check_indicators(conversation, quality_indicators[c])]
                  \o << _check_conversation_structure(conversation) >>
        red_flag_penalty == _check_red_flags(conversation)
        base_score == RDiv(RSum(scores), Rat(Len(scores), 1))
        final_score == RMax(Rat(0, 1), RSub(base_score, red_flag_penalty))
    IN  RMin(Rat(1, 1), final_score)

\* the category checks as four separate if statements
_check_scenario_specific_issues_Each(conversation, scenario_type) ==
    LET full_text == FullText(conversation)
    IN  (IF /\ Contains(scenario_type, "wrong_person")
            /\ ~Contains(full_text, "transfer") /\ ~Contains(full_text, "wrong")
         THEN << "Wrong person scenario should mention transfer or wrong person" >>
         ELSE << >>)
        \o (IF /\ Contains(scenario_type, "hostile")
               /\ ~Contains(full_text, "angry")
               /\ ~Contains(full_text, "upset")
               /\ ~Contains(full_text, "frustrated")
            THEN << "Hostile scenario should show customer anger or frustration" >>
            ELSE << >>)
        \o (IF /\ Contains(scenario_type, "payment_willing")
               /\ ~Contains(full_text, "pay") /\ ~Contains(full_text, "payment")
            THEN << "Payment willing scenario should discuss payment" >>
            ELSE << >>)
        \o (IF /\ Contains(scenario_type, "legal")
               /\ ~Contains(full_text, "legal")
               /\ ~Contains(full_text, "attorney")
               /\ ~Contains(full_text, "lawyer")
            THEN << "Legal scenario should mention legal terms" >>
            ELSE << >>)

_check_scenario_specific_issues(conversation, scenario_type) ==
    LET full_text == FullText(conversation)
    IN  IF Contains(scenario_type, "wrong_person") THEN
            IF ~Contains(full_text, "transfer") /\ ~Contains(full_text, "wrong")
            THEN << "Wrong person scenario should mention transfer or wrong person" >>
            ELSE << >>
        ELSE IF Contains(scenario_type, "hostile") THEN
            IF /\ ~Contains(full_text, "angry")
               /\ ~Contains(full_text, "upset")
               /\ ~Contains(full_text, "frustrated")
            THEN << "Hostile scenario should show customer anger or frustration" >>
            ELSE << >>
        ELSE IF Contains(scenario_type, "payment_willing") THEN
            IF ~Contains(full_text, "pay") /\ ~Contains(full_text, "payment")
            THEN << "Payment willing scenario should discuss payment" >>
            ELSE << >>
        ELSE IF Contains(scenario_type, "legal") THEN
            IF /\ ~Contains(full_text, "legal")
               /\ ~Contains(full_text, "attorney")
               /\ ~Contains(full_text, "lawyer")
            THEN << "Legal scenario should mention legal terms" >>
            ELSE << >>
        ELSE << >>

\* the generic checks as one if / elif chain: the first that triggers is
\* the only one reported
_identify_issues_FirstOnly(conversation, scenario_type) ==
    LET empty_messages ==
            Cardinality({i \in 1..Len(conversation) :
                            IsBlank(Get(conversation[i], "content", ""))})
        first_message == Lower(Get(conversation[1], "content", ""))
        last_message == Get(conversation[Len(conversation)], "content", "")
    IN  (IF empty_messages > 0
         THEN << ToString(empty_messages) \o " empty messages found" >>
         ELSE IF Len(conversation) < 4
         THEN << "Conversation too short (less than 4 exchanges)" >>
         ELSE IF ~Contains(first_message, "cleargrid")
                 /\ ~Contains(first_message, "salma")
         THEN << "Agent introduction missing or incomplete" >>
         ELSE IF Len(last_message) < 20
         THEN << "Conversation ending seems abrupt" >>
         ELSE << >>)
        \o (IF scenario_type # ""
            THEN _check_scenario_specific_issues(conversation, scenario_type)
            ELSE << >>)

\* scenario_type None and "" are both falsy at `if scenario_type`; "" stands
\* for both
_identify_issues(conversation, scenario_type) ==
    LET empty_messages ==
            Cardinality({i \in 1..Len(conversation) :
                            IsBlank(Get(conversation[i], "content", ""))})
        first_message == Lower(Get(conversation[1], "content", ""))
        last_message == Get(conversation[Len(conversation)], "content", "")
    IN  (IF empty_messages > 0
         THEN << ToString(empty_messages) \o " empty messages found" >>
         ELSE << >>)
        \o (IF Len(conversation) < 4
            THEN << "Conversation too short (less than 4 exchanges)" >>
            ELSE << >>)
        \o (IF ~Contains(first_message, "cleargrid")
               /\ ~Contains(first_message, "salma")
            THEN << "Agent introduction missing or incomplete" >>
            ELSE << >>)
        \o (IF Len(last_message) < 20
            THEN << "Conversation ending seems abrupt" >>
            ELSE << >>)
        \o (IF scenario_type # ""
            THEN _check_scenario_specific_issues(conversation, scenario_type)
            ELSE << >>)

_generate_recommendations(conversation, missing_tags, issues) ==
    LET full_text == FullText(conversation)
    IN  (IF Len(missing_tags) > 0
         THEN << "Include required special tags: " \o Join(", ", missing_tags) >>
         ELSE << >>)
        \o (IF Len(conversation) < 4
            THEN << "Extend conversation to at least 4-6 exchanges" >>
            ELSE << >>)
        \o (IF Len(conversation) > 20
            THEN << "Consider shortening conversation for better focus" >>
            ELSE << >>)
        \o (IF ~Contains(full_text, "thank you")
            THEN << "Add more polite language and courtesy" >>
            ELSE << >>)
        \o (IF ~Contains(full_text, "payment") /\ ~Contains(full_text, "debt")
            THEN << "Ensure debt collection purpose is clear" >>
            ELSE << >>)
        \o (IF ~\E tag \in {"(disconnect)", "(transfer)", "(function_1)",
                            "(function_2)"} : Contains(full_text, tag)
            THEN << "Include appropriate special tags for call handling" >>
            ELSE << >>)

\* the required-tag loop reporting the tag as it was compared
RECURSIVE MissingTags_Normalized(_, _)
MissingTags_Normalized(required_tags, found_tags) ==
    IF Len(required_tags) = 0 THEN << >>
    ELSE LET req_tag == required_tags[1]
             normalized_req_tag == IF StartsWith(req_tag, "(") THEN req_tag
                                   ELSE "(" \o req_tag \o ")"
         IN  (IF normalized_req_tag \notin found_tags
              THEN << normalized_req_tag >>
              ELSE << >>)
             \o MissingTags_Normalized(Tail(required_tags), found_tags)

\* the required-tag loop of validate_conversation
RECURSIVE MissingTags(_, _)
MissingTags(required_tags, found_tags) ==
    IF Len(required_tags) = 0 THEN << >>
    ELSE LET req_tag == required_tags[1]
             normalized_req_tag == IF StartsWith(req_tag, "(") THEN req_tag
                                   ELSE "(" \o req_tag \o ")"
         IN  (IF normalized_req_tag \notin found_tags THEN << req_tag >>
              ELSE << >>)
             \o MissingTags(Tail(required_tags), found_tags)

ValidationResult(passed, found_tags, missing_tags, quality_score, issues, recommendations) ==
    [passed |-> passed, found_tags |-> found_tags,
     missing_tags |-> missing_tags, quality_score |-> quality_score,
     issues |-> issues, recommendations |-> recommendations]

\* validate_conversation raises (AttributeError in msg.get) exactly when a
\* non-empty conversation has an element that is not a dict
ValidationRaises(conversation) ==
    \E i \in 1..Len(conversation) : ~IsDict(conversation[i])

\* the pass policy without the required-tag condition
Passed_IgnoresMissing(missing_tags, quality_score, issues) ==
    /\ RLeq(Rat(6, 10), quality_score)
    /\ Len(issues) <= 2

\* the pass policy with one more issue allowed
Passed_ThreeIssues(missing_tags, quality_score, issues) ==
    /\ Len(missing_tags) = 0
    /\ RLeq(Rat(6, 10), quality_score)
    /\ Len(issues) <= 3

\* passed = (len(missing_tags) == 0 and quality_score >= 0.6 and
\*           len(issues) <= 2)
Passed(missing_tags, quality_score, issues) ==
    /\ Len(missing_tags) = 0
    /\ RLeq(Rat(6, 10), quality_score)
    /\ Len(issues) <= 2

\* required_tags None and [] are both falsy at `required_tags or []` and
\* `if required_tags`; << >> stands for both
validate_conversation(conversation, required_tags, scenario_type) ==
    IF Len(conversation) = 0 THEN
        ValidationResult(FALSE, {}, required_tags, Rat(0, 1),
                         << "Empty conversation" >>,
                         << "Generate a non-empty conversation" >>)
    ELSE
        LET found_tags == _find_special_tags(conversation)
            missing_tags == MissingTags(required_tags, found_tags)
            quality_score == _calculate_quality_score(conversation)
            issues == _identify_issues(conversation, scenario_type)
            recommendations ==
                _generate_recommendations(conversation, missing_tags, issues)
            passed == Passed(missing_tags, quality_score, issues)
        IN  ValidationResult(passed, found_tags, missing_tags, quality_score,
                             issues, recommendations)

-----------------------------------------------------------------------------
(* Conversations the generation backend can return                         *)

good_conversation ==
    <<
       [role |-> "assistant", content |->
            "Good afternoon, this is Salma from ClearGrid. Am I speaking " \o
            "to Mr. Khalili?"],
       [role |-> "user", content |-> "Yes, this is Khalili."],
       [role |-> "assistant", content |->
            "Thank you for confirming. This call is recorded for quality " \o
            "purposes. I'm calling about your CashNow loan of six " \o
            "hundred dirhams that was due on August first. When can you " \o
            "pay this amount?"],
       [role |-> "user", content |-> "I can pay it today actually."],
       [role |-> "assistant", content |->
            "Excellent! I'll process your payment now. (function_1) " \o
            "Please confirm the amount of six hundred dirhams."],
       [role |-> "user", content |-> "Yes, confirmed."],
       [role |-> "assistant", content |->
            "Thank you. Your payment has been processed. Have a good " \o
            "day. (disconnect)"]
    >>

good_conversation_upper ==
    <<
       [role |-> "assistant", content |->
            "Good afternoon, this is Salma from ClearGrid. Am I speaking " \o
            "to Mr. Khalili?"],
       [role |-> "user", content |-> "Yes, this is Khalili."],
       [role |-> "assistant", content |->
            "Thank you for confirming. This call is recorded for quality " \o
            "purposes. I'm calling about your CashNow loan of six " \o
            "hundred dirhams that was due on August first. When can you " \o
            "pay this amount?"],
       [role |-> "user", content |-> "I can pay it today actually."],
       [role |-> "assistant", content |->
            "Excellent! I'll process your payment now. (Function_1) " \o
            "Please confirm the amount of six hundred dirhams."],
       [role |-> "user", content |-> "Yes, confirmed."],
       [role |-> "assistant", content |->
            "Thank you. Your payment has been processed. Have a good " \o
            "day. (disconnect)"]
    >>

poor_conversation ==
    <<
       [role |-> "assistant", content |-> "Hi"],
       [role |-> "user", content |-> "Hello"],
       [role |-> "assistant", content |-> "Pay money"]
    >>

wrong_person_conversation ==
    <<
       [role |-> "assistant", content |->
            "Good afternoon, this is Salma from ClearGrid. Am I speaking " \o
            "to Mr. Khalili?"],
       [role |-> "user", content |->
            "No, this is his wife. He's not home right now."],
       [role |-> "assistant", content |->
            "I understand. I need to speak with Mr. Khalili directly " \o
            "about a personal matter. When would be a good time to reach " \o
            "him?"],
       [role |-> "user", content |-> "He'll be back around 6 PM."],
       [role |-> "assistant", content |->
            "Thank you. I'll transfer this call to schedule a callback. " \o
            "(transfer) Have a good day."]
    >>

three_issue_conversation ==
    <<
       [role |-> "assistant", content |->
            "Good afternoon, may I please verify that I am speaking to " \o
            "Mr. Khalili?"],
       [role |-> "user", content |-> "Yes, that's me. How are you?"],
       [role |-> "assistant", content |->
            "Thank you for confirming. This call is recorded for quality " \o
            "purposes. I'm calling about your loan payment of six " \o
            "hundred dirhams, the amount is overdue."],
       [role |-> "user", content |-> " "],
       [role |-> "assistant", content |->
            "I understand. I will process the payment now. (function_1) " \o
            "(transfer)"],
       [role |-> "user", content |-> "Okay, sure."],
       [role |-> "assistant", content |-> "Bye (disconnect)"]
    >>

low_quality_conversation ==
    <<
       [role |-> "assistant", content |->
            "Salma here calling from ClearGrid today."],
       [role |-> "user", content |-> "What do you want from me this time?"],
       [role |-> "assistant", content |->
            "Settle it now. (function_1) (transfer)"],
       [role |-> "user", content |-> "Fine, do it then and leave me alone."]
    >>

\* seven alternating turns with the introduction phrase in the first and
\* "payment" and "(function_1)" in the fifth, and nothing more
terse_conversation ==
    <<
       [role |-> "assistant", content |-> "this is Salma from ClearGrid"],
       [role |-> "user", content |-> "x"],
       [role |-> "assistant", content |-> "y"],
       [role |-> "user", content |-> "z"],
       [role |-> "assistant", content |-> "payment (function_1)"],
       [role |-> "user", content |-> "q"],
       [role |-> "assistant", content |-> "w"]
    >>

\* the turns of good_conversation under the role names "agent" and
\* "customer", as a model may write them in its JSON array
agent_role_conversation ==
    [i \in 1..Len(good_conversation) |->
        [role |-> IF i % 2 = 1 THEN "agent" ELSE "customer",
         content |-> good_conversation[i].content]]

\* good_conversation with the customer's name left as a double-brace
\* placeholder: the red flags "{{" and "}}"
unfilled_placeholder_conversation ==
    [good_conversation EXCEPT ![1] =
        [role |-> "assistant", content |->
            "Good afternoon, this is Salma from ClearGrid. Am I speaking " \o
            "to Mr. {{customer_name}}?"]]

\* good_conversation with one red flag, "[insert"
insert_residue_conversation ==
    [good_conversation EXCEPT ![1] =
        [role |-> "assistant", content |->
            "Good afternoon, this is Salma from ClearGrid. Am I speaking " \o
            "to Mr. [insert name]?"]]

\* template residue: six of the red_flags occur in the text
red_flag_conversation ==
    <<
       [role |-> "assistant", content |->
            "Hello, this is Salma from ClearGrid. [insert customer name]"],
       [role |-> "user", content |-> "Lorem ipsum placeholder"],
       [role |-> "assistant", content |->
            "{{amount}} is due. Example text."],
       [role |-> "user", content |-> "ok"]
    >>

\* fewer than 3 turns and more than 30 turns: the two early returns of
\* _check_conversation_structure
two_turn_conversation ==
    <<
       [role |-> "assistant", content |->
            "Good morning, this is Salma from ClearGrid."],
       [role |-> "user", content |-> "Wrong number."]
    >>

long_conversation ==
    [i \in 1..31 |->
        [role |-> IF i % 2 = 1 THEN "assistant" ELSE "user",
         content |-> IF i % 2 = 1 THEN "Please confirm the payment."
                     ELSE "Okay, thank you."]]

\* both roles repeated, a turn of more than 500 characters and one red flag
repeated_role_conversation ==
    <<
       [role |-> "assistant", content |->
            "Good evening, this is Salma from ClearGrid."],
       [role |-> "assistant", content |-> "Hello?"],
       [role |-> "user", content |-> "Yes, I am here, sorry about that."],
       [role |-> "user", content |->
            "I know the loan is overdue. " \o
            Join("", [i \in 1..40 |-> "I will pay. "])],
       [role |-> "assistant", content |->
            "Thank you, placeholder. Please confirm the amount. (function_1)"]
    >>

\* markers written without parentheses: in angle brackets, as a word after
\* or before a space, at the start and at the end of a turn; and two
\* keywords inside longer words
loose_marker_conversation ==
    <<
       [role |-> "assistant", content |-> "Conference with my manager"],
       [role |-> "user", content |-> "I'll <MUTE>"],
       [role |-> "assistant", content |-> "say:escalate now"],
       [role |-> "user", content |-> "then,please hold"],
       [role |-> "assistant", content |-> "x(function_2)y"],
       [role |-> "user", content |-> "unmuted,xcallbackx"]
    >>

malformed_conversation == << [scalar |-> "not a message"] >>

-----------------------------------------------------------------------------
(* Bounds and input sets                                                   *)

\* max_retries of a RetryManager ranges over 0..MaxRetriesBound
MaxRetriesBound == 3

Conversations ==
    { << >>, good_conversation, good_conversation_upper, poor_conversation,
      wrong_person_conversation, three_issue_conversation,
      low_quality_conversation, terse_conversation, agent_role_conversation,
      red_flag_conversation, two_turn_conversation, long_conversation,
      repeated_role_conversation, loose_marker_conversation,
      unfilled_placeholder_conversation, insert_residue_conversation }

\* what generator_func(prompt) can return; it can also raise
BackendConversations ==
    { << >>, good_conversation, poor_conversation, three_issue_conversation,
      malformed_conversation }

\* the conversations a model response can hold
ModelConversations == BackendConversations \cup { agent_role_conversation }

RequiredTagLists ==
    { << >>, << "(function_1)" >>, << "(Function_1)" >>, << "function_1" >>,
      << "(transfer)" >>, << "(disconnect)" >>,
      << "(function_1)", "(callback)" >>,
      << "transfer", "(function_1)", "transfer" >> }

ScenarioTypes ==
    { "", "basic_payment_willing", "basic_payment_delayed",
      "basic_payment_refused", "hostile_customer_angry" }

Prompts == { "Generate a call." }

\* the required_tags and scenario_type a caller passes to generate_with_retry
CallTagLists == { << "(function_1)" >>, << "(function_1)", "(callback)" >> }

CallScenarioTypes == { "basic_payment_willing", "hostile_customer_angry" }

\* the scenario_type of a direct validate_conversation call
ValidateScenarioTypes ==
    { "", "basic_payment_willing", "hostile_customer_angry",
      "legal_dispute_amount", "wrong_person_hostile" }

-----------------------------------------------------------------------------
(* State                                                                   *)

VARIABLES
    validator,      \* RetryManager.validator: its validate_conversation
    max_retries,    \* RetryManager.max_retries
    pc,             \* "idle", "attempting" (at the head of the for loop),
                    \* "returned"
    prompt,         \* generate_with_retry: the local variable prompt
    required_tags,  \* generate_with_retry: argument
    scenario_type,  \* generate_with_retry: argument
    attempt,        \* number of loop iterations completed
    locals,         \* the locals conversation and validation_result, once bound
    ret,            \* the returned (conversation, validation_result)
    log,            \* one entry per generator_func call of the current call
    call_args,      \* arguments of the latest direct validate_conversation call
    call_result,    \* and the ValidationResult it returned
    client,         \* ConversationGenerator.client: the responses of the
                    \* model, a script that repeats
    model_calls,    \* number of chat completions requested so far
    rng,            \* state of the random module
    now,            \* datetime.now(), to the day
    batch_pc,       \* "idle", "scenarios" (head of the scenario loop),
                    \* "variations" (head of the variation loop),
                    \* "generating" (inside generate_with_retry), "done"
    base_prompt,    \* input_prompt.system_prompt / base_system_prompt
    scenarios_to_use,
    scenario_i,     \* number of scenarios completed
    variations,     \* generate_variations(scenario) of the current scenario
    variation_i,    \* number of its variations completed
    scenario_prompt,
    all_conversations,
    builder_call,   \* arguments of the latest direct call of a prompt-building
                    \* method of ConversationGenerator
    builder_result, \* and what it returned
    convert_call,   \* arguments of the latest conversion of
                    \* LlamaFormatConverter
    convert_result  \* and the list it returned

retryVars ==
    << validator, max_retries, pc, prompt, required_tags, scenario_type,
       attempt, locals, ret, log >>

validateVars == << call_args, call_result >>

batchVars ==
    << client, model_calls, rng, now, batch_pc, base_prompt, scenarios_to_use,
       scenario_i, variations, variation_i, scenario_prompt,
       all_conversations >>

builderVars == << builder_call, builder_result >>

converterVars == << convert_call, convert_result >>

\* the direct calls of single methods
directVars == << validateVars, builderVars, converterVars >>

vars == << retryVars, directVars, batchVars >>

-----------------------------------------------------------------------------
(* RetryManager                                                            *)

\* ValidationResult(False, [], [], 0.0, ["All attempts failed"], [])
AllAttemptsFailed ==
    ValidationResult(FALSE, {}, << >>, Rat(0, 1), << "All attempts failed" >>,
                     << >>)

\* "Conversation too short" in validation_result.issues: list membership
InList(x, xs) == \E i \in 1..Len(xs) : xs[i] = x

\* feedback that is computed and dropped
_enhance_prompt_Unchanged(original_prompt, validation_result) ==
    original_prompt

_enhance_prompt_based_on_feedback(original_prompt, validation_result) ==
    LET enhancements ==
            (IF Len(validation_result.missing_tags) > 0
             THEN << "CRITICAL: You MUST include these special tags in the conversation: "
                     \o Join(", ", validation_result.missing_tags) >>
             ELSE << >>)
            \o (IF RLt(validation_result.quality_score, Rat(6, 10))
                THEN << "IMPORTANT: Make the conversation more natural and professional" >>
                ELSE << >>)
            \o (IF InList("Conversation too short", validation_result.issues)
                THEN << "REQUIREMENT: Generate at least 6-8 message exchanges" >>
                ELSE << >>)
            \o (IF Len(validation_result.recommendations) > 0
                THEN << "IMPROVEMENTS NEEDED: "
                        \o Join("; ", SubSeq(validation_result.recommendations, 1,
                                   IF Len(validation_result.recommendations) < 3
                                   THEN Len(validation_result.recommendations)
                                   ELSE 3)) >>
                ELSE << >>)
        enhancement_text ==
            "\n\n## CRITICAL REQUIREMENTS FOR THIS RETRY:\n"
            \o Join("\n", [i \in 1..Len(enhancements) |-> "- " \o enhancements[i]])
    IN  IF Len(enhancements) > 0 THEN original_prompt \o enhancement_text
        ELSE original_prompt

\* the return after the loop without the locals of the attempts
LastAttempt_Placeholder(loc) ==
    [conversation |-> << >>, validation_result |-> AllAttemptsFailed]

\* the return statement after the loop
LastAttempt(loc) ==
    [conversation |-> IF "conversation" \in DOMAIN loc THEN loc.conversation
                      ELSE << >>,
     validation_result |-> IF "validation_result" \in DOMAIN loc
                           THEN loc.validation_result
                           ELSE AllAttemptsFailed]

\* range(self.max_retries + 1)
MoreAttempts_OneMore(done) == done <= max_retries

\* for attempt in range(self.max_retries): another iteration after `done`
MoreAttempts(done) == done < max_retries

\* end of a loop iteration that did not return: the next iteration, or the
\* return after the loop when range(max_retries) is used up
NextIteration(done, loc) ==
    /\ attempt' = done
    /\ locals' = loc
    /\ IF MoreAttempts(done)
       THEN pc' = "attempting" /\ ret' = ret
       ELSE pc' = "returned" /\ ret' = LastAttempt(loc)

\* a manager that keeps the feedback of its previous call: the retry blocks
\* added then are appended to the prompt of the new call
generate_with_retry_CarriesFeedback(p, r, s) ==
    /\ pc \in {"idle", "returned"}
    /\ prompt' = IF Len(log) > 0
                 THEN p \o SubSeq(prompt, Len(log[1].prompt) + 1, Len(prompt))
                 ELSE p
    /\ required_tags' = r
    /\ scenario_type' = s
    /\ log' = << >>
    /\ pc' = "attempting" /\ attempt' = 0 /\ locals' = << >> /\ ret' = << >>
    /\ UNCHANGED << validator, max_retries >>

\* a caller enters generate_with_retry(generator_func, prompt, required_tags,
\* scenario_type)
generate_with_retry(p, r, s) ==
    /\ pc \in {"idle", "returned"}
    /\ prompt' = p
    /\ required_tags' = r
    /\ scenario_type' = s
    /\ log' = << >>
    /\ IF MoreAttempts(0)
       THEN pc' = "attempting" /\ attempt' = 0 /\ locals' = << >> /\ ret' = << >>
       ELSE NextIteration(0, << >>)
    /\ UNCHANGED << validator, max_retries >>

\* an iteration without the except branch: the exception leaves the call
AttemptRaises_Propagates ==
    /\ pc = "attempting"
    /\ pc' = "raised"
    /\ log' = Append(log, [prompt |-> prompt, outcome |-> "raised"])
    /\ UNCHANGED << validator, max_retries, prompt, required_tags,
                    scenario_type, attempt, locals, ret >>

\* one iteration in which generator_func(prompt) raises: the except branch
AttemptRaises ==
    /\ pc = "attempting"
    /\ log' = Append(log, [prompt |-> prompt, outcome |-> "raised"])
    /\ NextIteration(attempt + 1, locals)
    /\ UNCHANGED << validator, max_retries, prompt, required_tags, scenario_type >>

\* generator_func returned c and validate_conversation raises on it:
\* conversation is bound, then the except branch
ValidationRaisesBranch(c) ==
    /\ log' = Append(log, [prompt |-> prompt, outcome |-> "returned",
                           conversation |-> c])
    /\ prompt' = prompt
    /\ NextIteration(attempt + 1, ("conversation" :> c) @@ locals)

\* a loop that keeps going after a passing verdict
ReturnsEarly_Never(validation_result) == FALSE

\* if validation_result.passed: return conversation, validation_result
ReturnsEarly(validation_result) == validation_result.passed

\* the feedback appended to the prompt of the first attempt
RetryPrompt_FromOriginal(p, validation_result) ==
    _enhance_prompt_based_on_feedback(
        IF Len(log) > 0 THEN log[1].prompt ELSE p, validation_result)

\* prompt = self._enhance_prompt_based_on_feedback(prompt, validation_result)
RetryPrompt(p, validation_result) ==
    _enhance_prompt_based_on_feedback(p, validation_result)

\* generator_func returned c and validate_conversation returned a verdict
ValidatedBranch(c) ==
    LET validation_result == validator[c, required_tags, scenario_type]
        loc == ("conversation" :> c) @@
               ("validation_result" :> validation_result) @@ locals
    IN  /\ log' = Append(log, [prompt |-> prompt, outcome |-> "returned",
                               conversation |-> c,
                               verdict |-> validation_result])
        /\ IF ReturnsEarly(validation_result) THEN
               /\ pc' = "returned"
               /\ ret' = [conversation |-> c,
                          validation_result |-> validation_result]
               /\ attempt' = attempt + 1
               /\ locals' = loc
               /\ prompt' = prompt
           ELSE
               /\ prompt' = RetryPrompt(prompt, validation_result)
               /\ NextIteration(attempt + 1, loc)

\* an iteration that treats an empty result as a failed generation and
\* does not validate it
AttemptReturns_SkipsEmpty(c) ==
    /\ pc = "attempting"
    /\ IF Len(c) = 0 \/ ValidationRaises(c)
       THEN ValidationRaisesBranch(c)
       ELSE ValidatedBranch(c)
    /\ UNCHANGED << validator, max_retries, required_tags, scenario_type >>

\* one iteration in which generator_func(prompt) returns conversation c
AttemptReturns(c) ==
    /\ pc = "attempting"
    /\ IF Len(c) > 0 /\ ValidationRaises(c)
       THEN ValidationRaisesBranch(c)
       ELSE ValidatedBranch(c)
    /\ UNCHANGED << validator, max_retries, required_tags, scenario_type >>

-----------------------------------------------------------------------------
(* One RetryManager, called any number of times                            *)

\* the verdicts of a ConversationValidator on the given inputs
ValidatorOver(cs, rs, ss) ==
    [c \in {x \in cs : ~ValidationRaises(x)}, r \in rs, s \in ss |->
        validate_conversation(c, r, s)]

\* RetryManager.__init__: self.validator = ConversationValidator()
ConversationValidator ==
    ValidatorOver(ModelConversations, RequiredTagLists, ScenarioTypes)

\* the fields and the call state of a RetryManager(max_retries) that has
\* not been called
NotCalled(n) ==
    /\ max_retries = n
    /\ pc = "idle"
    /\ prompt = ""
    /\ required_tags = << >>
    /\ scenario_type = ""
    /\ attempt = 0
    /\ locals = << >>
    /\ ret = << >>
    /\ log = << >>
    /\ call_args = << >>
    /\ call_result = << >>

\* a RetryManager(max_retries) that has not been called
NewRetryManager(n) ==
    /\ validator = ConversationValidator
    /\ NotCalled(n)

\* no batch is run and no prompt-building method has been called
NoBatch ==
    /\ client = << >>
    /\ model_calls = 0
    /\ rng = 0
    /\ now = << >>
    /\ batch_pc = "idle"
    /\ base_prompt = ""
    /\ scenarios_to_use = << >>
    /\ scenario_i = 0
    /\ variations = << >>
    /\ variation_i = 0
    /\ scenario_prompt = ""
    /\ all_conversations = << >>
    /\ builder_call = << >>
    /\ builder_result = ""
    /\ convert_call = << >>
    /\ convert_result = << >>

Init == (\E n \in 0..MaxRetriesBound : NewRetryManager(n)) /\ NoBatch

Call ==
    /\ \E p \in Prompts, r \in CallTagLists, s \in CallScenarioTypes :
          generate_with_retry(p, r, s)
    /\ UNCHANGED << directVars, batchVars >>

BackendRaises == AttemptRaises /\ UNCHANGED << directVars, batchVars >>

BackendReturns ==
    /\ \E c \in BackendConversations : AttemptReturns(c)
    /\ UNCHANGED << directVars, batchVars >>

Next == Call \/ BackendRaises \/ BackendReturns

Spec == Init /\ [][Next]_vars

\* every generator_func call returns or raises
FairSpec == Spec /\ WF_vars(BackendRaises \/ BackendReturns)

-----------------------------------------------------------------------------
(* The validator called directly, as the tests call it                     *)

\* a ConversationValidator on its own: the retry loop is not entered
InitValidate ==
    /\ validator = ValidatorOver(Conversations, RequiredTagLists,
                                 ValidateScenarioTypes)
    /\ NotCalled(0)
    /\ NoBatch

\* one direct call validator.validate_conversation(c, r, s) on the new
\* validator; the method reads the validator's tables and writes nothing
Validate ==
    /\ call_result = << >>
    /\ \E c \in Conversations, r \in RequiredTagLists,
          s \in ValidateScenarioTypes :
          /\ call_args' = [conversation |-> c, required_tags |-> r,
                           scenario_type |-> s]
          /\ call_result' = validator[c, r, s]
    /\ UNCHANGED << retryVars, batchVars, builderVars, converterVars >>

NextValidate == Validate

SpecValidate == InitValidate /\ [][NextValidate]_vars

-----------------------------------------------------------------------------
(* ConversationGenerator: variations and the scenario prompt               *)

\* s.find(t) + 1: the place of the first occurrence of t in s, 0 if none
Find(s, t) ==
    IF Contains(s, t)
    THEN CHOOSE i \in 1..(Len(s) - Len(t) + 1) :
            /\ SubSeq(s, i, i + Len(t) - 1) = t
            /\ \A j \in 1..(i - 1) : SubSeq(s, j, j + Len(t) - 1) # t
    ELSE 0

\* s.replace(old, new) for a non-empty old
RECURSIVE Replace(_, _, _)
Replace(s, old, new) ==
    LET i == Find(s, old)
    IN  IF i = 0 THEN s
        ELSE SubSeq(s, 1, i - 1) \o new
             \o Replace(SubSeq(s, i + Len(old), Len(s)), old, new)

\* s.split(): the words of s
RECURSIVE Split(_)
Split(s) ==
    IF Len(s) = 0 THEN << >>
    ELSE IF SubSeq(s, 1, 1) \in Whitespace THEN Split(SubSeq(s, 2, Len(s)))
    ELSE LET stops == {i \in 1..Len(s) : SubSeq(s, i, i) \in Whitespace}
             end == IF stops = {} THEN Len(s) + 1
                    ELSE CHOOSE i \in stops : \A j \in stops : i <= j
         IN  << SubSeq(s, 1, end - 1) >> \o Split(SubSeq(s, end, Len(s)))

\* DEBT_COLLECTION_SCENARIOS, its first scenarios
DEBT_COLLECTION_SCENARIOS ==
    << [id |-> "basic_payment_willing",
        name |-> "Customer willing to pay immediately",
        description |->
            "Customer acknowledges debt and agrees to pay within timeframe",
        customer_behavior |-> "cooperative",
        outcome |-> "positive",
        special_tags |-> << "(function_1)" >>],
       [id |-> "basic_payment_delayed",
        name |-> "Customer needs a few days to pay",
        description |->
            "Customer acknowledges debt but needs time within the 10-day window",
        customer_behavior |-> "cooperative_delayed",
        outcome |-> "positive",
        special_tags |-> << "(function_1)" >>],
       [id |-> "basic_payment_refused",
        name |-> "Customer refuses to pay",
        description |-> "Customer acknowledges debt but refuses to pay",
        customer_behavior |-> "uncooperative",
        outcome |-> "negative",
        special_tags |-> << "(disconnect)" >>] >>

agent_names ==
    << "Salma", "Ahmed", "Fatima", "Omar", "Layla", "Hassan", "Nour", "Khalid",
       "Amira", "Youssef", "Zara", "Ali", "Maryam", "Saeed", "Lina", "Tariq" >>

customer_names ==
    << "Khalili", "Al-Rashid", "Mansour", "Al-Zahra", "Qasemi", "Al-Mahmoud",
       "Abdulla", "Al-Farisi", "Hamdan", "Al-Mansoori", "Sharif", "Al-Blooshi",
       "Nasser", "Al-Shamsi", "Rashed", "Al-Kaabi", "Salem", "Al-Dhaheri" >>

debt_amounts ==
    << "three hundred dirhams", "four hundred fifty dirhams",
       "six hundred dirhams", "seven hundred twenty-five dirhams",
       "eight hundred dirhams", "nine hundred fifty dirhams",
       "one thousand dirhams", "one thousand two hundred dirhams",
       "one thousand five hundred dirhams", "two thousand dirhams" >>

month_names ==
    << "January", "February", "March", "April", "May", "June", "July",
       "August", "September", "October", "November", "December" >>

day_ordinals ==
    << "first", "second", "third", "fourth", "fifth", "sixth", "seventh",
       "eighth", "ninth", "tenth", "eleventh", "twelfth", "thirteenth",
       "fourteenth", "fifteenth", "sixteenth", "seventeenth", "eighteenth",
       "nineteenth", "twentieth", "twenty-first", "twenty-second",
       "twenty-third", "twenty-fourth", "twenty-fifth", "twenty-sixth",
       "twenty-seventh", "twenty-eighth", "twenty-ninth", "thirtieth",
       "thirty-first" >>

\* the random module: a generator whose state is one number; the draws of a
\* run are fixed by the state it starts in
NextRandom(r) == (r * 75 + 74) % 65537

\* the state after k draws
RECURSIVE Drawn(_, _)
Drawn(r, k) == IF k = 0 THEN r ELSE Drawn(NextRandom(r), k - 1)

\* random.choice(seq) on the draw r
choice(r, seq) == seq[(r % Len(seq)) + 1]

\* random.randint(a, b) on the draw r
randint(r, a, b) == a + (r % (b - a + 1))

IsLeap(y) == (y % 4 = 0 /\ y % 100 # 0) \/ y % 400 = 0

DaysInMonth(y, m) ==
    IF m = 2 THEN (IF IsLeap(y) THEN 29 ELSE 28)
    ELSE IF m \in {4, 6, 9, 11} THEN 30
    ELSE 31

\* d - timedelta(days=1)
Yesterday(d) ==
    IF d.day > 1 THEN [d EXCEPT !.day = @ - 1]
    ELSE IF d.month > 1
         THEN [year |-> d.year, month |-> d.month - 1,
               day |-> DaysInMonth(d.year, d.month - 1)]
    ELSE [year |-> d.year - 1, month |-> 12, day |-> 31]

\* d - timedelta(days=n)
RECURSIVE DaysBefore(_, _)
DaysBefore(d, n) == IF n = 0 THEN d ELSE DaysBefore(Yesterday(d), n - 1)

\* _generate_random_due_date on the draw r
_generate_random_due_date(r) ==
    LET days_ago == randint(r, 5, 45)
        due_date == DaysBefore(now, days_ago)
    IN  month_names[due_date.month] \o " " \o day_ordinals[due_date.day]

\* for i in range(10) of generate_variations
VariationsPerScenario == 10

\* draws of one ConversationRequest: customer_name, agent_name, debt_amount,
\* due_date
DrawsPerVariation == 4

\* the ConversationRequest of loop index i, built from the random state r
ConversationRequest(base_scenario, i, r) ==
    [scenario_id |-> base_scenario.id,
     variation_id |-> i + 1,
     system_prompt |-> "",
     customer_name |-> choice(Drawn(r, 1), customer_names),
     agent_name |-> choice(Drawn(r, 2), agent_names),
     debt_amount |-> choice(Drawn(r, 3), debt_amounts),
     due_date |-> _generate_random_due_date(Drawn(r, 4)),
     special_requirements |-> base_scenario.special_tags]

generate_variations(base_scenario, r) ==
    [k \in 1..VariationsPerScenario |->
        ConversationRequest(base_scenario, k - 1,
                            Drawn(r, DrawsPerVariation * (k - 1)))]

\* the dispatch without its final else: nothing is returned when no branch
\* matches
_get_scenario_specific_instructions_NoElse(scenario) ==
    LET scenario_id == scenario.id
    IN  IF Contains(scenario_id, "wrong_person") THEN
            "- The person answering is NOT the debtor\n- Agent must handle according to regulations\n- May need to transfer or disconnect"
        ELSE IF Contains(scenario_id, "hostile") THEN
            "- Customer becomes aggressive or angry\n- Agent must remain professional\n- May need to disconnect if too hostile"
        ELSE IF Contains(scenario_id, "legal") THEN
            "- Customer raises legal issues\n- Agent must follow legal protocols\n- May require escalation or transfer"
        ELSE IF Contains(scenario_id, "payment") /\ Contains(scenario_id, "willing") THEN
            "- Customer is cooperative and willing to pay\n- Focus on securing specific payment date\n- Use function_1 tag for payment processing"
        ELSE IF Contains(scenario_id, "technical") THEN
            "- Technical issues affect the call quality\n- May need to disconnect and callback\n- Handle technical problems professionally"
        ELSE IF Contains(scenario.customer_behavior, "vulnerable") THEN
            "- Customer needs special handling\n- Be extra careful and considerate\n- May need to transfer to specialist"
        ELSE ""

_get_scenario_specific_instructions(scenario) ==
    LET scenario_id == scenario.id
    IN  IF Contains(scenario_id, "wrong_person") THEN
            "- The person answering is NOT the debtor\n- Agent must handle according to regulations\n- May need to transfer or disconnect"
        ELSE IF Contains(scenario_id, "hostile") THEN
            "- Customer becomes aggressive or angry\n- Agent must remain professional\n- May need to disconnect if too hostile"
        ELSE IF Contains(scenario_id, "legal") THEN
            "- Customer raises legal issues\n- Agent must follow legal protocols\n- May require escalation or transfer"
        ELSE IF Contains(scenario_id, "payment") /\ Contains(scenario_id, "willing") THEN
            "- Customer is cooperative and willing to pay\n- Focus on securing specific payment date\n- Use function_1 tag for payment processing"
        ELSE IF Contains(scenario_id, "technical") THEN
            "- Technical issues affect the call quality\n- May need to disconnect and callback\n- Handle technical problems professionally"
        ELSE IF Contains(scenario.customer_behavior, "vulnerable") THEN
            "- Customer needs special handling\n- Be extra careful and considerate\n- May need to transfer to specialist"
        ELSE
            "- Follow standard debt collection procedures\n- Adapt to customer responses naturally\n- Include required special tags appropriately"

\* s.replace(old, new, 1): the first occurrence only
ReplaceFirst(s, old, new) ==
    LET i == Find(s, old)
    IN  IF i = 0 THEN s
        ELSE SubSeq(s, 1, i - 1) \o new \o SubSeq(s, i + Len(old), Len(s))

\* the builder replacing only the first occurrence of each token
create_scenario_prompt_FirstOnly(base, scenario, variation) ==
    LET words == Split(variation.customer_name)
        has_space == Contains(variation.customer_name, " ")
        p1 == ReplaceFirst(base, "{FirstName}",
                      IF has_space THEN words[1] ELSE variation.customer_name)
        p2 == ReplaceFirst(p1, "{LastName}",
                      IF has_space THEN words[Len(words)] ELSE "")
        p3 == ReplaceFirst(p2, "{amount}", variation.debt_amount)
        p4 == ReplaceFirst(p3, "{DueDate}", variation.due_date)
        p5 == ReplaceFirst(p4, "Salma", variation.agent_name)
        tags == Join(", ", scenario.special_tags)
        scenario_instructions ==
            "\n\n## SCENARIO-SPECIFIC INSTRUCTIONS FOR THIS CONVERSATION:\n\n"
            \o "**Scenario Type:** " \o scenario.name \o "\n"
            \o "**Description:** " \o scenario.description \o "\n"
            \o "**Customer Behavior:** " \o scenario.customer_behavior \o "\n"
            \o "**Expected Outcome:** " \o scenario.outcome \o "\n"
            \o "**Required Special Tags:** " \o tags \o "\n\n"
            \o "**Conversation Requirements:**\n"
            \o "- The conversation MUST include at least one of these special tags: "
            \o tags \o "\n"
            \o "- Customer should exhibit behavior consistent with: "
            \o scenario.customer_behavior \o "\n"
            \o "- The conversation should naturally lead to outcome: "
            \o scenario.outcome \o "\n"
            \o "- Make the conversation realistic and natural, not scripted\n"
            \o "- Include appropriate emotional responses and realistic dialogue\n"
            \o "- Ensure the agent follows the guided conversation rules from the base prompt\n\n"
            \o "**Special Instructions:**\n"
            \o _get_scenario_specific_instructions(scenario) \o "\n"
    IN  p5 \o scenario_instructions

create_scenario_prompt(base, scenario, variation) ==
    LET words == Split(variation.customer_name)
        has_space == Contains(variation.customer_name, " ")
        p1 == Replace(base, "{FirstName}",
                      IF has_space THEN words[1] ELSE variation.customer_name)
        p2 == Replace(p1, "{LastName}",
                      IF has_space THEN words[Len(words)] ELSE "")
        p3 == Replace(p2, "{amount}", variation.debt_amount)
        p4 == Replace(p3, "{DueDate}", variation.due_date)
        p5 == Replace(p4, "Salma", variation.agent_name)
        tags == Join(", ", scenario.special_tags)
        scenario_instructions ==
            "\n\n## SCENARIO-SPECIFIC INSTRUCTIONS FOR THIS CONVERSATION:\n\n"
            \o "**Scenario Type:** " \o scenario.name \o "\n"
            \o "**Description:** " \o scenario.description \o "\n"
            \o "**Customer Behavior:** " \o scenario.customer_behavior \o "\n"
            \o "**Expected Outcome:** " \o scenario.outcome \o "\n"
            \o "**Required Special Tags:** " \o tags \o "\n\n"
            \o "**Conversation Requirements:**\n"
            \o "- The conversation MUST include at least one of these special tags: "
            \o tags \o "\n"
            \o "- Customer should exhibit behavior consistent with: "
            \o scenario.customer_behavior \o "\n"
            \o "- The conversation should naturally lead to outcome: "
            \o scenario.outcome \o "\n"
            \o "- Make the conversation realistic and natural, not scripted\n"
            \o "- Include appropriate emotional responses and realistic dialogue\n"
            \o "- Ensure the agent follows the guided conversation rules from the base prompt\n\n"
            \o "**Special Instructions:**\n"
            \o _get_scenario_specific_instructions(scenario) \o "\n"
    IN  p5 \o scenario_instructions

-----------------------------------------------------------------------------
(* ConversationGenerator.generate_conversation and the batch loop of       *)
(* JSONLProcessor.process_single_prompt / generate_all_scenarios           *)

\* RetryManager(max_retries=3) of ConversationGenerator.__init__
RetryManagerMaxRetries == 3

\* generate_conversation(self, prompt, max_retries=3)
GeneratorMaxRetries == 3

\* responses of the model to one chat completion request
Json(c) == [kind |-> "json", conversation |-> c]

NoJson == [kind |-> "no_json"]

ApiError == [kind |-> "raises"]

\* the response to the request made after n earlier ones
Response(n) == client[(n % Len(client)) + 1]

\* the loop with range(max_retries + 1): one more request before giving up
RECURSIVE generate_conversation_OneMore(_, _)
generate_conversation_OneMore(n, tries) ==
    IF tries >= GeneratorMaxRetries + 1
    THEN [conversation |-> << >>, calls |-> n]
    ELSE LET response == Response(n)
         IN  IF /\ response.kind = "json"
                /\ ~ValidationRaises(response.conversation)
             THEN [conversation |-> response.conversation, calls |-> n + 1]
             ELSE generate_conversation_OneMore(n + 1, tries + 1)

\* the for loop of generate_conversation from iteration `tries`, after n model
\* calls: the conversation it returns and the model calls made by then.  A
\* response without a JSON array goes to the next iteration; a request that
\* raises, an array that json.loads rejects and an array on which
\* self._find_special_tags raises go to the except branch.
RECURSIVE generate_conversation(_, _)
generate_conversation(n, tries) ==
    IF tries >= GeneratorMaxRetries THEN [conversation |-> << >>, calls |-> n]
    ELSE LET response == Response(n)
         IN  IF /\ response.kind = "json"
                /\ ~ValidationRaises(response.conversation)
             THEN [conversation |-> response.conversation, calls |-> n + 1]
             ELSE generate_conversation(n + 1, tries + 1)

\* GeneratedConversation(...) of the batch loop
GeneratedConversation(scenario, variation, conversation, validation_result, p) ==
    [scenario_id |-> scenario.id,
     variation_id |-> variation.variation_id,
     conversation |-> conversation,
     special_tags_found |-> validation_result.found_tags,
     validation_passed |-> validation_result.passed,
     system_prompt |-> p]

\* a loop that keeps only the conversations that passed
Appended_PassedOnly(records, generated_conv) ==
    IF generated_conv.validation_passed THEN Append(records, generated_conv)
    ELSE records

\* all_conversations.append(generated_conv)
Appended(records, generated_conv) == Append(records, generated_conv)

\* self.generator.scenarios[:num_scenarios] for num_scenarios >= 0
FirstScenarios(num_scenarios) ==
    SubSeq(DEBT_COLLECTION_SCENARIOS, 1,
           IF num_scenarios < Len(DEBT_COLLECTION_SCENARIOS) THEN num_scenarios
           ELSE Len(DEBT_COLLECTION_SCENARIOS))

\* entry of the batch loop over the scenarios `use`
StartBatch(system_prompt, use) ==
    /\ batch_pc = "idle"
    /\ batch_pc' = "scenarios"
    /\ base_prompt' = system_prompt
    /\ scenarios_to_use' = use
    /\ scenario_i' = 0
    /\ all_conversations' = << >>
    /\ UNCHANGED << retryVars, directVars, client, model_calls, rng, now,
                    variations, variation_i, scenario_prompt >>

\* JSONLProcessor.process_single_prompt(input_prompt, num_scenarios)
process_single_prompt(system_prompt, num_scenarios) ==
    StartBatch(system_prompt, FirstScenarios(num_scenarios))

\* ConversationGenerator.generate_all_scenarios(base_system_prompt)
generate_all_scenarios(base_system_prompt) ==
    StartBatch(base_system_prompt, DEBT_COLLECTION_SCENARIOS)

\* for i, scenario in enumerate(scenarios_to_use):
\*     variations = self.generator.generate_variations(scenario)
BeginScenario ==
    /\ batch_pc = "scenarios"
    /\ scenario_i < Len(scenarios_to_use)
    /\ variations' = generate_variations(scenarios_to_use[scenario_i + 1], rng)
    /\ rng' = Drawn(rng, DrawsPerVariation * VariationsPerScenario)
    /\ variation_i' = 0
    /\ batch_pc' = "variations"
    /\ UNCHANGED << retryVars, directVars, client, model_calls, now,
                    base_prompt, scenarios_to_use, scenario_i, scenario_prompt,
                    all_conversations >>

\* for variation in variations: create_scenario_prompt, then the call of
\* retry_manager.generate_with_retry up to its first generator_func call
BeginVariation ==
    /\ batch_pc = "variations"
    /\ variation_i < Len(variations)
    /\ LET scenario == scenarios_to_use[scenario_i + 1]
           p == create_scenario_prompt(base_prompt, scenario,
                                       variations[variation_i + 1])
       IN  /\ scenario_prompt' = p
           /\ generate_with_retry(p, scenario.special_tags, scenario.id)
    /\ batch_pc' = "generating"
    /\ UNCHANGED << directVars, client, model_calls, rng, now, base_prompt,
                    scenarios_to_use, scenario_i, variations, variation_i,
                    all_conversations >>

\* one iteration of generate_with_retry with generator_func =
\* self.generator.generate_conversation, which never raises
GenerateAttempt ==
    /\ batch_pc = "generating"
    /\ LET generated == generate_conversation(model_calls, 0)
       IN  /\ AttemptReturns(generated.conversation)
           /\ model_calls' = generated.calls
    /\ UNCHANGED << directVars, client, rng, now, batch_pc, base_prompt,
                    scenarios_to_use, scenario_i, variations, variation_i,
                    scenario_prompt, all_conversations >>

\* generate_with_retry has returned: the record of the variation
AppendRecord ==
    /\ batch_pc = "generating"
    /\ pc = "returned"
    /\ all_conversations' =
          Appended(all_conversations,
                   GeneratedConversation(scenarios_to_use[scenario_i + 1],
                                         variations[variation_i + 1],
                                         ret.conversation,
                                         ret.validation_result,
                                         scenario_prompt))
    /\ variation_i' = variation_i + 1
    /\ batch_pc' = "variations"
    /\ UNCHANGED << retryVars, directVars, client, model_calls, rng, now,
                    base_prompt, scenarios_to_use, scenario_i, variations,
                    scenario_prompt >>

\* the variation loop is used up: the next scenario
EndScenario ==
    /\ batch_pc = "variations"
    /\ variation_i = Len(variations)
    /\ scenario_i' = scenario_i + 1
    /\ batch_pc' = "scenarios"
    /\ UNCHANGED << retryVars, directVars, client, model_calls, rng, now,
                    base_prompt, scenarios_to_use, variations, variation_i,
                    scenario_prompt, all_conversations >>

\* return all_conversations
ReturnBatch ==
    /\ batch_pc = "scenarios"
    /\ scenario_i = Len(scenarios_to_use)
    /\ batch_pc' = "done"
    /\ UNCHANGED << retryVars, directVars, client, model_calls, rng, now,
                    base_prompt, scenarios_to_use, scenario_i, variations,
                    variation_i, scenario_prompt, all_conversations >>

\* largest num_scenarios of a process_single_prompt call
MaxNumScenarios == 2

\* random states a run starts in: 0..MaxSeed
MaxSeed == 1

\* the days on which a batch runs
Nows ==
    { [year |-> 2025, month |-> 1, day |-> 10],
      [year |-> 2024, month |-> 3, day |-> 20] }

BasePrompts ==
    { "You are Salma from ClearGrid. Call {FirstName} {LastName} about "
      \o "{amount} due on {DueDate} for {Product}. Salma stays polite." }

\* the model: always a good conversation; always a poor one; every request
\* fails; a response without JSON, a poor and a good conversation; and a mix
\* of failures, empty arrays, arrays of non-objects and conversations
Clients ==
    { << Json(good_conversation) >>,
      << Json(agent_role_conversation) >>,
      << Json(poor_conversation) >>,
      << ApiError >>,
      << NoJson, Json(poor_conversation), Json(good_conversation) >>,
      << Json(poor_conversation), ApiError, NoJson, ApiError, Json(<< >>),
         Json(good_conversation), Json(malformed_conversation),
         Json(poor_conversation), Json(poor_conversation),
         Json(three_issue_conversation) >> }

\* ConversationGenerator.__init__ followed by JSONLProcessor.__init__
InitBatch ==
    /\ NewRetryManager(RetryManagerMaxRetries)
    /\ client \in Clients
    /\ model_calls = 0
    /\ rng \in 0..MaxSeed
    /\ now \in Nows
    /\ batch_pc = "idle"
    /\ base_prompt = ""
    /\ scenarios_to_use = << >>
    /\ scenario_i = 0
    /\ variations = << >>
    /\ variation_i = 0
    /\ scenario_prompt = ""
    /\ all_conversations = << >>
    /\ builder_call = << >>
    /\ builder_result = ""
    /\ convert_call = << >>
    /\ convert_result = << >>

ProcessSinglePrompt ==
    \E p \in BasePrompts, n \in 0..MaxNumScenarios : process_single_prompt(p, n)

GenerateAllScenarios == \E p \in BasePrompts : generate_all_scenarios(p)

NextBatch ==
    \/ ProcessSinglePrompt
    \/ GenerateAllScenarios
    \/ BeginScenario
    \/ BeginVariation
    \/ GenerateAttempt
    \/ AppendRecord
    \/ EndScenario
    \/ ReturnBatch

SpecBatch == InitBatch /\ [][NextBatch]_vars


-----------------------------------------------------------------------------
(* The scenario catalog and the prompt builder called directly             *)

\* every scenario of DEBT_COLLECTION_SCENARIOS, in order, with the fields the
\* category dispatch and the validator read
AllScenarios ==
    << [id |-> "basic_payment_willing",
        customer_behavior |-> "cooperative", special_tags |-> << "(function_1)" >>],
       [id |-> "basic_payment_delayed",
        customer_behavior |-> "cooperative_delayed", special_tags |-> << "(function_1)" >>],
       [id |-> "basic_payment_refused",
        customer_behavior |-> "uncooperative", special_tags |-> << "(disconnect)" >>],
       [id |-> "basic_payment_partial",
        customer_behavior |-> "negotiating", special_tags |-> << "(function_2)" >>],
       [id |-> "basic_payment_confusion",
        customer_behavior |-> "confused", special_tags |-> << "(function_1)" >>],
       [id |-> "basic_payment_already_paid",
        customer_behavior |-> "disputing", special_tags |-> << "(function_2)" >>],
       [id |-> "basic_payment_financial_hardship",
        customer_behavior |-> "hardship", special_tags |-> << "(function_1)" >>],
       [id |-> "basic_payment_medical_emergency",
        customer_behavior |-> "hardship", special_tags |-> << "(function_1)" >>],
       [id |-> "basic_payment_job_loss",
        customer_behavior |-> "hardship", special_tags |-> << "(function_1)" >>],
       [id |-> "basic_payment_family_emergency",
        customer_behavior |-> "hardship", special_tags |-> << "(function_1)" >>],
       [id |-> "wrong_person_family",
        customer_behavior |-> "wrong_person", special_tags |-> << "(transfer)" >>],
       [id |-> "wrong_person_roommate",
        customer_behavior |-> "wrong_person", special_tags |-> << "(transfer)" >>],
       [id |-> "wrong_person_coworker",
        customer_behavior |-> "wrong_person", special_tags |-> << "(transfer)" >>],
       [id |-> "wrong_person_neighbor",
        customer_behavior |-> "wrong_person", special_tags |-> << "(transfer)" >>],
       [id |-> "wrong_person_business",
        customer_behavior |-> "wrong_person", special_tags |-> << "(transfer)" >>],
       [id |-> "wrong_person_previous_owner",
        customer_behavior |-> "wrong_person", special_tags |-> << "(disconnect)" >>],
       [id |-> "wrong_person_minor",
        customer_behavior |-> "wrong_person", special_tags |-> << "(disconnect)" >>],
       [id |-> "wrong_person_elderly_relative",
        customer_behavior |-> "wrong_person", special_tags |-> << "(transfer)" >>],
       [id |-> "wrong_person_caregiver",
        customer_behavior |-> "wrong_person", special_tags |-> << "(transfer)" >>],
       [id |-> "wrong_person_refuses_info",
        customer_behavior |-> "wrong_person", special_tags |-> << "(disconnect)" >>],
       [id |-> "hostile_customer_angry",
        customer_behavior |-> "hostile", special_tags |-> << "(disconnect)" >>],
       [id |-> "hostile_customer_abusive",
        customer_behavior |-> "hostile", special_tags |-> << "(disconnect)" >>],
       [id |-> "hostile_customer_threatening",
        customer_behavior |-> "hostile", special_tags |-> << "(disconnect)" >>],
       [id |-> "hostile_customer_harassment_claim",
        customer_behavior |-> "hostile", special_tags |-> << "(transfer)" >>],
       [id |-> "hostile_customer_recording",
        customer_behavior |-> "hostile", special_tags |-> << "(function_1)" >>],
       [id |-> "hostile_customer_lawyer_threat",
        customer_behavior |-> "hostile", special_tags |-> << "(transfer)" >>],
       [id |-> "hostile_customer_complaint_threat",
        customer_behavior |-> "hostile", special_tags |-> << "(transfer)" >>],
       [id |-> "hostile_customer_media_threat",
        customer_behavior |-> "hostile", special_tags |-> << "(transfer)" >>],
       [id |-> "hostile_customer_hangs_up_repeatedly",
        customer_behavior |-> "hostile", special_tags |-> << "(disconnect)" >>],
       [id |-> "hostile_customer_demands_supervisor",
        customer_behavior |-> "hostile", special_tags |-> << "(transfer)" >>],
       [id |-> "legal_dispute_debt_validity",
        customer_behavior |-> "disputing", special_tags |-> << "(transfer)" >>],
       [id |-> "legal_dispute_amount",
        customer_behavior |-> "disputing", special_tags |-> << "(transfer)" >>],
       [id |-> "legal_cease_and_desist",
        customer_behavior |-> "legal", special_tags |-> << "(transfer)" >>],
       [id |-> "legal_attorney_representation",
        customer_behavior |-> "legal", special_tags |-> << "(transfer)" >>],
       [id |-> "legal_bankruptcy_filed",
        customer_behavior |-> "legal", special_tags |-> << "(transfer)" >>],
       [id |-> "legal_statute_limitations",
        customer_behavior |-> "legal", special_tags |-> << "(transfer)" >>],
       [id |-> "legal_identity_theft_claim",
        customer_behavior |-> "disputing", special_tags |-> << "(transfer)" >>],
       [id |-> "legal_fraud_claim",
        customer_behavior |-> "disputing", special_tags |-> << "(transfer)" >>],
       [id |-> "legal_deceased_debtor",
        customer_behavior |-> "legal", special_tags |-> << "(transfer)" >>],
       [id |-> "legal_military_protection",
        customer_behavior |-> "legal", special_tags |-> << "(transfer)" >>],
       [id |-> "technical_poor_connection",
        customer_behavior |-> "technical", special_tags |-> << "(callback)" >>],
       [id |-> "technical_call_drops",
        customer_behavior |-> "technical", special_tags |-> << "(callback)" >>],
       [id |-> "technical_customer_on_speaker",
        customer_behavior |-> "technical", special_tags |-> << "(function_1)" >>],
       [id |-> "technical_background_noise",
        customer_behavior |-> "environmental", special_tags |-> << "(function_1)" >>],
       [id |-> "technical_customer_driving",
        customer_behavior |-> "distracted", special_tags |-> << "(callback)" >>],
       [id |-> "technical_customer_multitasking",
        customer_behavior |-> "distracted", special_tags |-> << "(function_1)" >>],
       [id |-> "technical_voicemail_full",
        customer_behavior |-> "technical", special_tags |-> << "(callback)" >>],
       [id |-> "technical_wrong_number_recorded",
        customer_behavior |-> "technical", special_tags |-> << "(transfer)" >>],
       [id |-> "technical_customer_hearing_impaired",
        customer_behavior |-> "vulnerable", special_tags |-> << "(transfer)" >>],
       [id |-> "technical_language_barrier",
        customer_behavior |-> "confused", special_tags |-> << "(transfer)" >>],
       [id |-> "circumstances_elderly_confused",
        customer_behavior |-> "vulnerable", special_tags |-> << "(transfer)" >>],
       [id |-> "circumstances_customer_sick",
        customer_behavior |-> "vulnerable", special_tags |-> << "(callback)" >>],
       [id |-> "circumstances_customer_traveling",
        customer_behavior |-> "unavailable", special_tags |-> << "(callback)" >>],
       [id |-> "circumstances_customer_at_work",
        customer_behavior |-> "unavailable", special_tags |-> << "(callback)" >>],
       [id |-> "circumstances_customer_with_children",
        customer_behavior |-> "distracted", special_tags |-> << "(callback)" >>],
       [id |-> "circumstances_customer_in_meeting",
        customer_behavior |-> "unavailable", special_tags |-> << "(callback)" >>],
       [id |-> "circumstances_customer_grieving",
        customer_behavior |-> "vulnerable", special_tags |-> << "(callback)" >>],
       [id |-> "circumstances_customer_divorced",
        customer_behavior |-> "distressed", special_tags |-> << "(function_1)" >>],
       [id |-> "circumstances_customer_new_baby",
        customer_behavior |-> "distressed", special_tags |-> << "(function_1)" >>],
       [id |-> "circumstances_customer_moved",
        customer_behavior |-> "cooperative", special_tags |-> << "(function_1)" >>],
       [id |-> "agent_challenge_customer_interrupts",
        customer_behavior |-> "hostile", special_tags |-> << "(function_1)" >>],
       [id |-> "agent_challenge_customer_silent",
        customer_behavior |-> "uncooperative", special_tags |-> << "(disconnect)" >>],
       [id |-> "agent_challenge_customer_lies",
        customer_behavior |-> "uncooperative", special_tags |-> << "(function_1)" >>],
       [id |-> "agent_challenge_customer_stalling",
        customer_behavior |-> "uncooperative", special_tags |-> << "(function_1)" >>],
       [id |-> "agent_challenge_customer_testing",
        customer_behavior |-> "challenging", special_tags |-> << "(transfer)" >>],
       [id |-> "agent_challenge_customer_emotional",
        customer_behavior |-> "vulnerable", special_tags |-> << "(callback)" >>],
       [id |-> "agent_challenge_customer_drunk",
        customer_behavior |-> "impaired", special_tags |-> << "(callback)" >>],
       [id |-> "agent_challenge_customer_paranoid",
        customer_behavior |-> "suspicious", special_tags |-> << "(disconnect)" >>],
       [id |-> "agent_challenge_customer_rambling",
        customer_behavior |-> "distracted", special_tags |-> << "(function_1)" >>],
       [id |-> "agent_challenge_customer_demands_proof",
        customer_behavior |-> "challenging", special_tags |-> << "(transfer)" >>],
       [id |-> "escalation_supervisor_request",
        customer_behavior |-> "escalating", special_tags |-> << "(transfer)" >>],
       [id |-> "escalation_complaint_filing",
        customer_behavior |-> "escalating", special_tags |-> << "(transfer)" >>],
       [id |-> "escalation_regulatory_threat",
        customer_behavior |-> "escalating", special_tags |-> << "(transfer)" >>],
       [id |-> "escalation_legal_department",
        customer_behavior |-> "escalating", special_tags |-> << "(transfer)" >>],
       [id |-> "escalation_corporate_office",
        customer_behavior |-> "escalating", special_tags |-> << "(transfer)" >>],
       [id |-> "escalation_media_contact",
        customer_behavior |-> "escalating", special_tags |-> << "(transfer)" >>],
       [id |-> "escalation_attorney_general",
        customer_behavior |-> "escalating", special_tags |-> << "(transfer)" >>],
       [id |-> "escalation_better_business_bureau",
        customer_behavior |-> "escalating", special_tags |-> << "(transfer)" >>],
       [id |-> "escalation_lawsuit_threat",
        customer_behavior |-> "escalating", special_tags |-> << "(transfer)" >>],
       [id |-> "escalation_police_threat",
        customer_behavior |-> "escalating", special_tags |-> << "(transfer)" >>],
       [id |-> "verification_identity_failed",
        customer_behavior |-> "suspicious", special_tags |-> << "(transfer)" >>],
       [id |-> "verification_refuses_to_verify",
        customer_behavior |-> "uncooperative", special_tags |-> << "(disconnect)" >>],
       [id |-> "verification_partial_information",
        customer_behavior |-> "suspicious", special_tags |-> << "(transfer)" >>],
       [id |-> "verification_outdated_information",
        customer_behavior |-> "cooperative", special_tags |-> << "(function_1)" >>],
       [id |-> "verification_name_change",
        customer_behavior |-> "cooperative", special_tags |-> << "(function_1)" >>],
       [id |-> "verification_ssn_mismatch",
        customer_behavior |-> "suspicious", special_tags |-> << "(transfer)" >>],
       [id |-> "verification_address_mismatch",
        customer_behavior |-> "cooperative", special_tags |-> << "(function_1)" >>],
       [id |-> "verification_phone_mismatch",
        customer_behavior |-> "cooperative", special_tags |-> << "(function_1)" >>],
       [id |-> "verification_dob_mismatch",
        customer_behavior |-> "suspicious", special_tags |-> << "(transfer)" >>],
       [id |-> "verification_multiple_attempts",
        customer_behavior |-> "suspicious", special_tags |-> << "(transfer)" >>],
       [id |-> "misc_customer_very_polite",
        customer_behavior |-> "cooperative", special_tags |-> << "(function_1)" >>],
       [id |-> "misc_customer_suspicious_questions",
        customer_behavior |-> "suspicious", special_tags |-> << "(transfer)" >>],
       [id |-> "misc_customer_recording_announcement",
        customer_behavior |-> "legal", special_tags |-> << "(function_1)" >>],
       [id |-> "misc_wrong_debt_amount_system",
        customer_behavior |-> "disputing", special_tags |-> << "(transfer)" >>],
       [id |-> "misc_duplicate_call_same_day",
        customer_behavior |-> "frustrated", special_tags |-> << "(transfer)" >>],
       [id |-> "misc_wrong_customer_name_system",
        customer_behavior |-> "confused", special_tags |-> << "(transfer)" >>],
       [id |-> "misc_customer_moved_no_forwarding",
        customer_behavior |-> "unavailable", special_tags |-> << "(transfer)" >>],
       [id |-> "misc_background_noise_loud",
        customer_behavior |-> "environmental", special_tags |-> << "(function_1)" >>],
       [id |-> "misc_customer_multitasking_distracted",
        customer_behavior |-> "distracted", special_tags |-> << "(function_1)" >>],
       [id |-> "misc_perfect_resolution",
        customer_behavior |-> "ideal", special_tags |-> << "(function_1)" >>],
       [id |-> "broken_promise_recent",
        customer_behavior |-> "defensive", special_tags |-> << "(function_2)" >>],
       [id |-> "broken_promise_multiple",
        customer_behavior |-> "uncooperative", special_tags |-> << "(escalate)" >>],
       [id |-> "broken_promise_circumstances_changed",
        customer_behavior |-> "apologetic", special_tags |-> << "(function_1)" >>],
       [id |-> "broken_promise_forgot",
        customer_behavior |-> "confused", special_tags |-> << "(function_1)" >>],
       [id |-> "broken_promise_disputes_making",
        customer_behavior |-> "hostile", special_tags |-> << "(transfer)" >>],
       [id |-> "broken_promise_partial_kept",
        customer_behavior |-> "cooperative", special_tags |-> << "(function_2)" >>],
       [id |-> "broken_promise_technical_failure",
        customer_behavior |-> "frustrated", special_tags |-> << "(function_1)" >>],
       [id |-> "broken_promise_bank_issue",
        customer_behavior |-> "embarrassed", special_tags |-> << "(function_1)" >>],
       [id |-> "broken_promise_family_emergency",
        customer_behavior |-> "distressed", special_tags |-> << "(function_1)" >>],
       [id |-> "broken_promise_wants_new_plan",
        customer_behavior |-> "negotiating", special_tags |-> << "(function_2)" >>],
       [id |-> "promise_to_pay_date_confirmation",
        customer_behavior |-> "cooperative", special_tags |-> << "(function_1)", "(callback)" >>],
       [id |-> "promise_to_pay_method_confirmation",
        customer_behavior |-> "cooperative", special_tags |-> << "(function_2)" >>],
       [id |-> "promise_to_pay_contact_update",
        customer_behavior |-> "cooperative", special_tags |-> << "(function_1)" >>],
       [id |-> "promise_to_pay_payment_plan_setup",
        customer_behavior |-> "negotiating", special_tags |-> << "(function_2)", "(callback)" >>],
       [id |-> "promise_to_pay_bank_details",
        customer_behavior |-> "cooperative", special_tags |-> << "(function_2)" >>],
       [id |-> "promise_to_pay_partial_plan",
        customer_behavior |-> "negotiating", special_tags |-> << "(function_2)", "(callback)" >>],
       [id |-> "promise_to_pay_after_new_job",
        customer_behavior |-> "hopeful", special_tags |-> << "(callback)" >>],
       [id |-> "promise_to_pay_insurance_settlement",
        customer_behavior |-> "cooperative", special_tags |-> << "(callback)" >>],
       [id |-> "promise_to_pay_tax_refund",
        customer_behavior |-> "cooperative", special_tags |-> << "(function_1)", "(callback)" >>],
       [id |-> "promise_to_pay_verification_required",
        customer_behavior |-> "cooperative", special_tags |-> << "(transfer)" >>],
       [id |-> "edge_case_wrong_account_payment",
        customer_behavior |-> "confused", special_tags |-> << "(transfer)" >>],
       [id |-> "edge_case_unrecorded_payment",
        customer_behavior |-> "frustrated", special_tags |-> << "(transfer)" >>],
       [id |-> "edge_case_bankruptcy_proceedings",
        customer_behavior |-> "legal", special_tags |-> << "(transfer)" >>],
       [id |-> "edge_case_deceased_customer_family",
        customer_behavior |-> "wrong_person", special_tags |-> << "(transfer)" >>],
       [id |-> "edge_case_military_deployment",
        customer_behavior |-> "vulnerable", special_tags |-> << "(transfer)" >>],
       [id |-> "edge_case_incarcerated_customer",
        customer_behavior |-> "vulnerable", special_tags |-> << "(transfer)" >>],
       [id |-> "edge_case_identity_theft_victim",
        customer_behavior |-> "disputing", special_tags |-> << "(transfer)" >>],
       [id |-> "edge_case_elderly_confused_customer",
        customer_behavior |-> "vulnerable", special_tags |-> << "(transfer)" >>],
       [id |-> "edge_case_language_barrier_customer",
        customer_behavior |-> "confused", special_tags |-> << "(transfer)" >>],
       [id |-> "edge_case_hearing_impaired_customer",
        customer_behavior |-> "vulnerable", special_tags |-> << "(transfer)" >>] >>

\* scenarios outside the catalog: identifiers with several category
\* substrings, with 'payment' and 'willing' apart, and with none
OtherScenarios ==
    { [id |-> "hostile_legal_wrong_person", customer_behavior |-> "hostile",
       special_tags |-> << "(disconnect)" >>],
      [id |-> "legal_hostile_customer", customer_behavior |-> "legal",
       special_tags |-> << "(transfer)" >>],
      [id |-> "technical_payment_willing", customer_behavior |-> "cooperative",
       special_tags |-> << "(function_1)" >>],
      [id |-> "unwilling_partial_payment", customer_behavior |-> "vulnerable",
       special_tags |-> << "(function_2)" >>],
      [id |-> "payment_plan_request", customer_behavior |-> "vulnerable_elderly",
       special_tags |-> << "(transfer)" >>],
      [id |-> "payment_plan_request", customer_behavior |-> "negotiating",
       special_tags |-> << "(transfer)" >>],
      [id |-> "", customer_behavior |-> "", special_tags |-> << >>] }

BuilderScenarios == {AllScenarios[i] : i \in 1..Len(AllScenarios)} \cup OtherScenarios

\* ConversationGenerator() and no call yet
InitBuilder == NewRetryManager(0) /\ NoBatch

\* a direct call of _get_scenario_specific_instructions(scenario)
GetInstructions ==
    /\ \E scenario \in BuilderScenarios :
          /\ builder_call' = [scenario |-> scenario]
          /\ builder_result' = _get_scenario_specific_instructions(scenario)
    /\ UNCHANGED << retryVars, validateVars, converterVars, client,
                    model_calls, rng, now,
                    batch_pc, base_prompt, scenarios_to_use, scenario_i,
                    variations, variation_i, scenario_prompt,
                    all_conversations >>

\* the template of the batch runs and the template of test_generator.py,
\* which names the agent by a token the builder does not know
BuilderTemplates ==
    BasePrompts \cup
    { "You are **{agent_name}**, a professional account specialist from "
      \o "**ClearGrid**.\n- Obtain payment commitment for {amount} that was "
      \o "due on {DueDate}\n- Customer name: {FirstName} {LastName}\n" }

\* requests of a direct call: a name of the built-in pool, a name of three
\* words, and a customer whose first name is the agent name of the template
BuilderRequests ==
    { [scenario_id |-> "basic_payment_willing", variation_id |-> 1,
       system_prompt |-> "", customer_name |-> c, agent_name |-> a,
       debt_amount |-> debt_amounts[1], due_date |-> "August first",
       special_requirements |-> << "(function_1)" >>] :
         c \in { customer_names[1], "Sara Al Khalili", "Salma Khalili" },
         a \in { agent_names[1], agent_names[2] } }

\* a direct call of create_scenario_prompt(base_prompt, scenario, variation)
CreatePrompt ==
    /\ \E t \in BuilderTemplates, v \in BuilderRequests,
          i \in 1..Len(DEBT_COLLECTION_SCENARIOS) :
          /\ builder_call' = [base_prompt |-> t,
                              scenario |-> DEBT_COLLECTION_SCENARIOS[i],
                              variation |-> v]
          /\ builder_result' =
                create_scenario_prompt(t, DEBT_COLLECTION_SCENARIOS[i], v)
    /\ UNCHANGED << retryVars, validateVars, converterVars, client,
                    model_calls, rng, now,
                    batch_pc, base_prompt, scenarios_to_use, scenario_i,
                    variations, variation_i, scenario_prompt,
                    all_conversations >>

NextBuilder == GetInstructions \/ CreatePrompt

SpecBuilder == InitBuilder /\ [][NextBuilder]_vars

-----------------------------------------------------------------------------
(* ConversationConverter of convert_to_llama_format.py                     *)

\* the turns of messages whose role is r, in order
TurnsOfRole(messages, r) == SelectSeq(messages, LAMBDA msg : msg.role = r)

\* the metadata every converted entry copies from its record
ConvertedMetadata(conv) ==
    [scenario_id |-> conv.scenario_id,
     variation_id |-> conv.variation_id,
     validation_passed |-> conv.validation_passed,
     special_tags_found |-> conv.special_tags_found]

\* one list out of a list of lists
RECURSIVE Chained(_)
Chained(lists) ==
    IF lists = << >> THEN << >> ELSE Head(lists) \o Chained(Tail(lists))

\* the ShareGPT entry of one record: the system prompt, then the user turns
\* as "human" and the assistant turns as "gpt"; turns of other roles are
\* left out
ShareGPTEntry(system_prompt, conv) ==
    LET kept == SelectSeq(conv.conversation,
                          LAMBDA msg : msg.role \in {"user", "assistant"})
    IN  [conversations |->
            << [from |-> "system", value |-> system_prompt] >>
            \o [k \in 1..Len(kept) |->
                  [from |-> IF kept[k].role = "user" THEN "human" ELSE "gpt",
                   value |-> kept[k].content]],
         metadata |-> ConvertedMetadata(conv)]

\* records with no messages are skipped
convert_to_sharegpt_format(system_prompt, conversations) ==
    Chained([k \in 1..Len(conversations) |->
        IF conversations[k].conversation = << >> THEN << >>
        ELSE << ShareGPTEntry(system_prompt, conversations[k]) >>])

ChatMLEntry(system_prompt, conv) ==
    LET kept == SelectSeq(conv.conversation,
                          LAMBDA msg : msg.role \in {"user", "assistant"})
    IN  [messages |->
            << [role |-> "system", content |-> system_prompt] >>
            \o [k \in 1..Len(kept) |->
                  [role |-> kept[k].role, content |-> kept[k].content]],
         metadata |-> ConvertedMetadata(conv)]

convert_to_chatml_format(system_prompt, conversations) ==
    Chained([k \in 1..Len(conversations) |->
        IF conversations[k].conversation = << >> THEN << >>
        ELSE << ChatMLEntry(system_prompt, conversations[k]) >>])

\* the Alpaca entries of one record: zip(user_messages, assistant_messages)
\* pairs the i-th user message with the i-th assistant message and stops at
\* the shorter list
AlpacaEntries(system_prompt, conv) ==
    LET user_messages == TurnsOfRole(conv.conversation, "user")
        assistant_messages == TurnsOfRole(conv.conversation, "assistant")
        n == IF Len(user_messages) < Len(assistant_messages)
             THEN Len(user_messages) ELSE Len(assistant_messages)
    IN  [i \in 1..n |->
            [instruction |-> system_prompt \o "\n\nCustomer: "
                             \o user_messages[i].content,
             input |-> "",
             output |-> assistant_messages[i].content,
             metadata |->
                [scenario_id |-> conv.scenario_id,
                 variation_id |-> conv.variation_id,
                 turn_number |-> i,
                 validation_passed |-> conv.validation_passed,
                 special_tags_found |-> conv.special_tags_found]]]

convert_to_alpaca_format(system_prompt, conversations) ==
    Chained([k \in 1..Len(conversations) |->
        IF conversations[k].conversation = << >> THEN << >>
        ELSE AlpacaEntries(system_prompt, conversations[k])])

\* a conversation the customer opens
customer_first_conversation ==
    << [role |-> "user", content |-> "Hello, who is calling?"],
       [role |-> "assistant",
        content |-> "This is Salma from ClearGrid about your account."] >>

\* records of conversations.jsonl
ConverterRecord(id, conversation, ok, tags) ==
    [scenario_id |-> id, variation_id |-> id \o "_var_1",
     conversation |-> conversation, validation_passed |-> ok,
     special_tags_found |-> tags]

ConverterRecords ==
    { ConverterRecord("basic_payment_willing", good_conversation, TRUE,
                      << "[EXIT]" >>),
      ConverterRecord("wrong_person_family", wrong_person_conversation, TRUE,
                      << "[EXIT]" >>),
      ConverterRecord("hostile_customer_angry", poor_conversation, FALSE,
                      << >>),
      ConverterRecord("legal_dispute_amount", agent_role_conversation, FALSE,
                      << >>),
      ConverterRecord("callback_request", customer_first_conversation, FALSE,
                      << >>),
      ConverterRecord("no_response", << >>, FALSE, << >>) }

MaxRecords == 2

ConverterInputs ==
    UNION { [1..n -> ConverterRecords] : n \in 1..MaxRecords }

\* the system prompt main() loads from prompts.jsonl
ConverterSystemPrompt == "You are Salma, a debt collection agent."

\* the script builds no RetryManager and no ConversationGenerator
InitConvert ==
    /\ validator = << >>
    /\ NotCalled(0)
    /\ NoBatch

ConvertShareGPT ==
    \E conversations \in ConverterInputs :
        /\ convert_call' = [format |-> "sharegpt",
                            system_prompt |-> ConverterSystemPrompt,
                            conversations |-> conversations]
        /\ convert_result' =
                convert_to_sharegpt_format(ConverterSystemPrompt, conversations)
        /\ UNCHANGED << retryVars, validateVars, builderVars, batchVars >>

ConvertChatML ==
    \E conversations \in ConverterInputs :
        /\ convert_call' = [format |-> "chatml",
                            system_prompt |-> ConverterSystemPrompt,
                            conversations |-> conversations]
        /\ convert_result' =
                convert_to_chatml_format(ConverterSystemPrompt, conversations)
        /\ UNCHANGED << retryVars, validateVars, builderVars, batchVars >>

ConvertAlpaca ==
    \E conversations \in ConverterInputs :
        /\ convert_call' = [format |-> "alpaca",
                            system_prompt |-> ConverterSystemPrompt,
                            conversations |-> conversations]
        /\ convert_result' =
                convert_to_alpaca_format(ConverterSystemPrompt, conversations)
        /\ UNCHANGED << retryVars, validateVars, builderVars, batchVars >>

NextConvert == ConvertShareGPT \/ ConvertChatML \/ ConvertAlpaca

SpecConvert == InitConvert /\ [][NextConvert]_vars

-----------------------------------------------------------------------------
(* Properties of generate_with_retry, read off the log of its attempts     *)

Returned(k) == "conversation" \in DOMAIN log[k]

Validated(k) == "verdict" \in DOMAIN log[k]

NoAttemptPassed == \A k \in 1..Len(log) : Validated(k) => ~log[k].verdict.passed

\* the text an attempt's feedback added to the prompt of the next attempt
Block(k) == SubSeq(log[k + 1].prompt, Len(log[k].prompt) + 1, Len(log[k + 1].prompt))

\* C1: if attempt k is the first whose verdict passes, the backend is called
\* exactly k times and the call returns attempt k's conversation and verdict.
C1_RetryMonotonicity ==
    \A k \in 1..Len(log) :
        (Validated(k) /\ log[k].verdict.passed) =>
            /\ Len(log) = k
            /\ pc = "returned"
            /\ ret = [conversation |-> log[k].conversation,
                      validation_result |-> log[k].verdict]

\* a pass on the second of three allowed attempts, after a failed validation
C1_Witness ==
    /\ pc = "returned"
    /\ max_retries = 3
    /\ Len(log) = 2
    /\ Validated(1) /\ ~log[1].verdict.passed
    /\ Validated(2) /\ log[2].verdict.passed

\* C2 as stated: with no passing attempt the call returns the final attempt's
\* conversation and verdict, and the returned conversation is not empty if
\* some attempt produced a non-empty conversation.
C2_FinalAttemptNeverEmpty ==
    (pc = "returned" /\ Len(log) > 0 /\ NoAttemptPassed) =>
        /\ Len(log) = max_retries
        /\ Returned(Len(log)) => ret.conversation = log[Len(log)].conversation
        /\ Validated(Len(log)) => ret.validation_result = log[Len(log)].verdict
        /\ (\E k \in 1..Len(log) : Returned(k) /\ Len(log[k].conversation) > 0)
               => Len(ret.conversation) > 0

\* C2 amended: with no passing attempt the call returns, after exactly
\* max_retries backend calls, the conversation of the last attempt on which
\* the backend returned and the verdict of the last attempt that was
\* validated, or the empty conversation and the 'All attempts failed'
\* verdict where there is no such attempt.
C2_LastBoundAttempt ==
    (pc = "returned" /\ NoAttemptPassed) =>
        LET returned == {k \in 1..Len(log) : Returned(k)}
            validated == {k \in 1..Len(log) : Validated(k)}
            last(S) == CHOOSE k \in S : \A j \in S : j <= k
        IN  /\ Len(log) = max_retries
            /\ ret.conversation =
                   IF returned = {} THEN << >>
                   ELSE log[last(returned)].conversation
            /\ ret.validation_result =
                   IF validated = {} THEN AllAttemptsFailed
                   ELSE log[last(validated)].verdict

\* exhausted with an empty final result after a non-empty first one
C2_Witness ==
    /\ pc = "returned"
    /\ NoAttemptPassed
    /\ Len(log) >= 2
    /\ Returned(1) /\ Len(log[1].conversation) > 0
    /\ Returned(Len(log)) /\ Len(log[Len(log)].conversation) = 0
    /\ Len(ret.conversation) = 0

\* C5: a raising backend call consumes exactly one attempt, never leaves the
\* call as an exception, and is followed by the next attempt; when every
\* attempt raises (or max_retries is 0) the call returns the empty
\* conversation with the 'All attempts failed' verdict.
C5_BackendFailureRecovered ==
    /\ pc \in {"idle", "attempting", "returned"}
    /\ pc # "idle" => attempt = Len(log)
    /\ \A k \in 1..Len(log) :
          (log[k].outcome = "raised" /\ k < max_retries) =>
              (k < Len(log) \/ pc = "attempting")
    /\ (pc = "returned" /\ \A k \in 1..Len(log) : log[k].outcome = "raised") =>
          /\ Len(log) = max_retries
          /\ ret = [conversation |-> << >>,
                    validation_result |->
                        [passed |-> FALSE, found_tags |-> {},
                         missing_tags |-> << >>,
                         quality_score |-> [n |-> 0, d |-> 1],
                         issues |-> << "All attempts failed" >>,
                         recommendations |-> << >>]]

\* three attempts, all raising, and the call has returned
C5_Witness ==
    /\ pc = "returned"
    /\ max_retries = 3
    /\ Len(log) = 3
    /\ \A k \in 1..3 : log[k].outcome = "raised"

\* C6 as stated: an attempt on which the backend raises or returns an empty
\* conversation is not validated and leaves the prompt of the next attempt
\* unchanged.
C6_FailedGenerationNotValidated ==
    \A k \in 1..Len(log) :
        (log[k].outcome = "raised" \/ Len(log[k].conversation) = 0) =>
            /\ ~Validated(k)
            /\ k < Len(log) => log[k + 1].prompt = log[k].prompt

\* C6 amended: an attempt on which the backend raises is not validated and
\* leaves the prompt unchanged; an attempt on which it returns an empty
\* conversation is validated, gets the 'Empty conversation' verdict, and the
\* prompt of the next attempt is the previous one plus a retry block.
C6_OnlyRaisingAttemptsSkipValidation ==
    \A k \in 1..Len(log) :
        /\ log[k].outcome = "raised" =>
              /\ ~Validated(k)
              /\ k < Len(log) => log[k + 1].prompt = log[k].prompt
        /\ (log[k].outcome = "returned" /\ Len(log[k].conversation) = 0) =>
              /\ Validated(k)
              /\ log[k].verdict =
                    [passed |-> FALSE, found_tags |-> {},
                     missing_tags |-> required_tags,
                     quality_score |-> [n |-> 0, d |-> 1],
                     issues |-> << "Empty conversation" >>,
                     recommendations |-> << "Generate a non-empty conversation" >>]
              /\ k < Len(log) =>
                    /\ StartsWith(log[k + 1].prompt, log[k].prompt)
                    /\ Contains(Block(k), "CRITICAL REQUIREMENTS FOR THIS RETRY")
                    /\ Contains(Block(k), "Generate a non-empty conversation")

\* a raising attempt and an empty result, each followed by another attempt
C6_Witness ==
    /\ Len(log) = 3
    /\ log[1].outcome = "raised"
    /\ log[2].outcome = "returned" /\ Len(log[2].conversation) = 0
    /\ log[3].prompt # log[2].prompt

\* C7: the backend is called at most max_retries times, exactly max_retries
\* times when no attempt passes, and every call of generate_with_retry
\* returns.
C7_BoundedTermination ==
    /\ [](Len(log) <= max_retries)
    /\ []((pc = "returned" /\ NoAttemptPassed) => Len(log) = max_retries)
    /\ (pc = "attempting" ~> pc = "returned")

\* exhaustion after the largest number of attempts
C7_Witness ==
    /\ pc = "returned"
    /\ max_retries = MaxRetriesBound
    /\ Len(log) = max_retries
    /\ NoAttemptPassed

\* C8: after a non-passing verdict with missing markers, the next attempt's
\* prompt is the previous prompt followed by a block that contains 'CRITICAL'
\* and the text of every missing marker.
C8_MissingMarkersEscalated ==
    \A k \in 1..(Len(log) - 1) :
        (Validated(k) /\ ~log[k].verdict.passed
            /\ Len(log[k].verdict.missing_tags) > 0) =>
            /\ StartsWith(log[k + 1].prompt, log[k].prompt)
            /\ Contains(Block(k), "CRITICAL")
            /\ \A i \in 1..Len(log[k].verdict.missing_tags) :
                  Contains(Block(k), log[k].verdict.missing_tags[i])

\* a second attempt made after a verdict that misses two markers
C8_Witness ==
    /\ Len(log) >= 2
    /\ Validated(1)
    /\ Len(log[1].verdict.missing_tags) = 2

\* C9: the prompt of attempt k+1 has the prompt of attempt k as a prefix, and
\* so does the prompt carried forward after the latest attempt.
C9_AugmentationsAccumulate ==
    /\ \A k \in 1..(Len(log) - 1) : StartsWith(log[k + 1].prompt, log[k].prompt)
    /\ Len(log) > 0 => StartsWith(prompt, log[Len(log)].prompt)
    /\ Len(log) > 0 => log[1].prompt \in Prompts

\* three attempts whose prompts grew twice by different blocks
C9_Witness ==
    /\ Len(log) = 3
    /\ Len(log[1].prompt) < Len(log[2].prompt)
    /\ Len(log[2].prompt) < Len(log[3].prompt)
    /\ Block(1) # Block(2)

-----------------------------------------------------------------------------
(* Properties of validate_conversation                                     *)

Called == DOMAIN call_result # {}

\* C3: a returned ValidationResult has passed = true exactly when its
\* missing_tags is empty, its quality_score is at least 0.6 and it has at
\* most 2 issues, on the empty-conversation path too.
C3_PassPolicy ==
    Called =>
        (call_result.passed <=>
            /\ call_result.missing_tags = << >>
            /\ 10 * call_result.quality_score.n >= 6 * call_result.quality_score.d
            /\ Len(call_result.issues) <= 2)

\* a verdict that fails on the issue count alone
C3_Witness ==
    /\ Called
    /\ ~call_result.passed
    /\ call_result.missing_tags = << >>
    /\ 10 * call_result.quality_score.n >= 6 * call_result.quality_score.d
    /\ Len(call_result.issues) = 3

LowerTags(tags) == [i \in 1..Len(tags) |-> Lower(tags[i])]

\* two conversations that differ at most in the letter case of their text
SameTextUpToCase(c1, c2) ==
    /\ Len(c1) = Len(c2)
    /\ \A i \in 1..Len(c1) :
          /\ Get(c1[i], "role", "") = Get(c2[i], "role", "")
          /\ Lower(Get(c1[i], "content", "")) = Lower(Get(c2[i], "content", ""))

\* C10: changing only the letter case of a marker, in a turn's text or in
\* required_tags, changes neither the found markers, nor the missing ones,
\* nor whether the verdict passes.
C10_CaseInsensitive ==
    Called =>
        \A c \in Conversations, r \in RequiredTagLists :
            (/\ SameTextUpToCase(c, call_args.conversation)
             /\ LowerTags(r) = LowerTags(call_args.required_tags)) =>
                LET other == validator[c, r, call_args.scenario_type]
                IN  /\ other.found_tags = call_result.found_tags
                    /\ LowerTags(other.missing_tags)
                           = LowerTags(call_result.missing_tags)
                    /\ other.passed = call_result.passed

-----------------------------------------------------------------------------
(* Properties of the batch loop                                            *)

\* the scenario and the variation_id of the n-th record of a batch
RecordScenario(n) == scenarios_to_use[((n - 1) \div VariationsPerScenario) + 1]

RecordVariation(n) == ((n - 1) % VariationsPerScenario) + 1

\* C4: each scenario processed appends exactly 10 records, variation_id 1..10
\* in order, one per variation, whatever the retry loop of the variation did:
\* at every point of a batch the records are those of the variations
\* completed so far, and a finished batch holds 10 per scenario.
C4_OneRecordPerVariation ==
    /\ Len(all_conversations) =
          VariationsPerScenario * scenario_i
          + (IF batch_pc \in {"variations", "generating"} THEN variation_i
             ELSE 0)
    /\ \A n \in 1..Len(all_conversations) :
          /\ all_conversations[n].scenario_id = RecordScenario(n).id
          /\ all_conversations[n].variation_id = RecordVariation(n)
    /\ batch_pc = "done" =>
          Len(all_conversations) = 10 * Len(scenarios_to_use)

\* a finished batch of two scenarios with a record that passed, a record of
\* an exhausted retry loop with a conversation, and a record of a retry loop
\* that ended on an empty result
C4_Witness ==
    /\ batch_pc = "done"
    /\ Len(scenarios_to_use) = 2
    /\ \E n \in 1..Len(all_conversations) :
          all_conversations[n].validation_passed
    /\ \E n \in 1..Len(all_conversations) :
          /\ ~all_conversations[n].validation_passed
          /\ Len(all_conversations[n].conversation) > 0
    /\ \E n \in 1..Len(all_conversations) :
          /\ ~all_conversations[n].validation_passed
          /\ Len(all_conversations[n].conversation) = 0

-----------------------------------------------------------------------------
(* Further properties of validate_conversation                             *)

\* a required marker in its bracketed form: a bare keyword x stands for (x)
Bracketed(tag) ==
    IF Len(tag) > 0 /\ SubSeq(tag, 1, 1) = "(" THEN tag ELSE "(" \o tag \o ")"

\* C11: for a non-empty conversation missing_tags lists, in order and in the
\* caller's spelling, exactly the required markers whose bracketed form is
\* not in found_tags; so every missing marker is a required one and no
\* required marker is both found and missing.
C11_RequiredMarkerCheck ==
    (Called /\ Len(call_args.conversation) > 0) =>
        LET absent(tag) == Bracketed(tag) \notin call_result.found_tags
        IN  /\ call_result.missing_tags =
                   SelectSeq(call_args.required_tags, absent)
            /\ \A i \in 1..Len(call_result.missing_tags) :
                  /\ \E j \in 1..Len(call_args.required_tags) :
                        call_args.required_tags[j] = call_result.missing_tags[i]
                  /\ Bracketed(call_result.missing_tags[i])
                         \notin call_result.found_tags

\* of three required markers the bracketed one is found and the bare one,
\* required twice, is reported twice as the caller wrote it
C11_Witness ==
    /\ Called
    /\ Len(call_args.conversation) > 0
    /\ call_args.required_tags = << "transfer", "(function_1)", "transfer" >>
    /\ "(function_1)" \in call_result.found_tags
    /\ call_result.missing_tags = << "transfer", "transfer" >>

-----------------------------------------------------------------------------
(* Further properties of the batch loop                                    *)

\* the record of the variation just completed is the last one, and log still
\* holds the attempts of its generate_with_retry call
RecordJustAppended ==
    batch_pc = "variations" /\ variation_i > 0 /\ Len(log) > 0

LastRecord == all_conversations[Len(all_conversations)]

\* C12: the prompt stored in a record is the prompt that was passed to the
\* backend on the attempt that produced the record's conversation, retry
\* blocks included, for passing and failing records alike.
C12_RecordCarriesPromptUsed ==
    RecordJustAppended =>
        /\ LastRecord.conversation = log[Len(log)].conversation
        /\ LastRecord.system_prompt = log[Len(log)].prompt

-----------------------------------------------------------------------------
(* Properties of the prompt builder                                        *)

InstructionsCalled == DOMAIN builder_call = {"scenario"}

\* the opening line that tells each instruction block from the others
BlockMarks ==
    [wrong_person |-> "- The person answering is NOT the debtor",
     hostile |-> "- Customer becomes aggressive or angry",
     legal |-> "- Customer raises legal issues",
     payment_willing |-> "- Customer is cooperative and willing to pay",
     technical |-> "- Technical issues affect the call quality",
     vulnerable |-> "- Customer needs special handling",
     generic |-> "- Follow standard debt collection procedures"]

\* the blocks a returned text is
BlocksOf(text) == {b \in DOMAIN BlockMarks : StartsWith(text, BlockMarks[b])}

\* the category substrings an identifier contains
IdCategories(id) ==
    {c \in {"wrong_person", "hostile", "legal", "technical"} : Contains(id, c)}
    \cup (IF Contains(id, "payment") /\ Contains(id, "willing")
          THEN {"payment_willing"} ELSE {})

\* the first of the identifier's categories in the order of the dispatch
FirstIdCategory(id) ==
    LET order == << "wrong_person", "hostile", "legal", "payment_willing",
                    "technical" >>
        k == CHOOSE i \in 1..Len(order) :
                 /\ order[i] \in IdCategories(id)
                 /\ \A j \in 1..(i - 1) : order[j] \notin IdCategories(id)
    IN  order[k]

\* C13 as stated: the returned block is one non-empty block chosen by
\* substring match on the identifier, the generic block when the identifier
\* matches no category.
C13_DispatchByIdentifier ==
    InstructionsCalled =>
        LET id == builder_call.scenario.id
        IN  /\ Len(builder_result) > 0
            /\ BlocksOf(builder_result) =
                  IF IdCategories(id) = {} THEN {"generic"}
                  ELSE {FirstIdCategory(id)}

\* C13 amended: the returned block is one non-empty block: that of the first
\* category substring the identifier contains, in the order wrong_person,
\* hostile, legal, payment and willing, technical; with none of them the
\* special-handling block when customer_behavior contains 'vulnerable'; and
\* the generic block otherwise.
C13_DispatchTotal ==
    InstructionsCalled =>
        LET id == builder_call.scenario.id
            behavior == builder_call.scenario.customer_behavior
        IN  /\ Len(builder_result) > 0
            /\ Cardinality(BlocksOf(builder_result)) = 1
            /\ BlocksOf(builder_result) =
                  IF IdCategories(id) # {} THEN {FirstIdCategory(id)}
                  ELSE IF Contains(behavior, "vulnerable") THEN {"vulnerable"}
                  ELSE {"generic"}

\* a catalog scenario whose identifier has no category substring and that
\* gets the special-handling block
C13_Witness ==
    /\ InstructionsCalled
    /\ builder_call.scenario.id = "circumstances_elderly_confused"
    /\ IdCategories(builder_call.scenario.id) = {}
    /\ BlocksOf(builder_result) = {"vulnerable"}

-----------------------------------------------------------------------------
(* Isolation of the variations of a batch                                  *)

RetryHeader == "## CRITICAL REQUIREMENTS FOR THIS RETRY"

\* C14: failures and retries of one variation never affect its siblings.
\* No step changes the validator's tables or the retry bound, and no step of
\* a running batch changes the scenario list or the base prompt; the first
\* attempt of every variation uses exactly the prompt built for that
\* variation, without a retry block; and a variation that used up its
\* attempts leaves the manager ready for the next call, so a finished batch
\* holds one record for every variation of every scenario.
C14_VariationsIsolated ==
    /\ [][/\ validator' = validator
          /\ max_retries' = max_retries
          /\ batch_pc # "idle" => /\ scenarios_to_use' = scenarios_to_use
                                  /\ base_prompt' = base_prompt]_vars
    /\ []((batch_pc = "generating" /\ Len(log) > 0) =>
            /\ log[1].prompt =
                  create_scenario_prompt(base_prompt,
                                         scenarios_to_use[scenario_i + 1],
                                         variations[variation_i + 1])
            /\ ~Contains(log[1].prompt, RetryHeader))
    /\ [](batch_pc = "variations" => pc \in {"idle", "returned"})
    /\ [](batch_pc = "done" =>
            Len(all_conversations) =
                VariationsPerScenario * Len(scenarios_to_use))

\* the first attempt of a variation whose predecessor failed every attempt
C14_Witness ==
    /\ batch_pc = "generating"
    /\ variation_i >= 1
    /\ Len(log) = 1
    /\ ~LastRecord.validation_passed
    /\ ~Contains(log[1].prompt, RetryHeader)

-----------------------------------------------------------------------------
(* The two conversations of the validation test                            *)

\* seven turns that alternate from the agent on, with the introduction
\* phrase in the first turn and "payment" and "(function_1)" in the fifth
WellFormed(conversation) ==
    /\ Len(conversation) = 7
    /\ \A i \in 1..7 :
          /\ IsDict(conversation[i])
          /\ conversation[i].role = (IF i % 2 = 1 THEN "assistant" ELSE "user")
    /\ Contains(conversation[1].content, "this is Salma from ClearGrid")
    /\ Contains(conversation[5].content, "payment")
    /\ Contains(conversation[5].content, "(function_1)")

\* validate_conversation(conversation, ["(function_1)"],
\*                       "basic_payment_willing") on a well-formed conversation
WellFormedCall ==
    /\ Called
    /\ WellFormed(call_args.conversation)
    /\ call_args.required_tags = << "(function_1)" >>
    /\ call_args.scenario_type = "basic_payment_willing"

AtLeastSixTenths(q) == 10 * q.n >= 6 * q.d

\* C15 as stated: every conversation of seven alternating turns with the
\* introduction phrase in turn 1 and "payment" and "(function_1)" in turn 5,
\* validated against ["(function_1)"] and "basic_payment_willing", passes
\* with no missing tag and a quality score of at least 0.6.
C15_WellFormedPasses ==
    WellFormedCall =>
        /\ call_result.passed
        /\ call_result.missing_tags = << >>
        /\ AtLeastSixTenths(call_result.quality_score)

\* C15 amended: every such conversation has no missing tag and passes
\* exactly when its score is at least 0.6 and it has at most two issues; the
\* conversation of the validation test does pass, with a score of at
\* least 0.6.
C15_TestConversationPasses ==
    WellFormedCall =>
        /\ call_result.missing_tags = << >>
        /\ call_result.passed <=>
              /\ AtLeastSixTenths(call_result.quality_score)
              /\ Len(call_result.issues) <= 2
        /\ call_args.conversation = good_conversation =>
              /\ call_result.passed
              /\ AtLeastSixTenths(call_result.quality_score)

\* the verdict of the test's conversation
C15_Witness ==
    /\ WellFormedCall
    /\ call_args.conversation = good_conversation
    /\ call_result.passed
    /\ call_result.quality_score = Rat(118, 135)

\* a required marker, in its bracketed form, is not among the found tags
MarkerNotFound ==
    \E i \in 1..Len(call_args.required_tags) :
        Bracketed(call_args.required_tags[i]) \notin call_result.found_tags

\* C16: the three-turn conversation [Hi / Hello / Pay money] validated
\* against ["(function_1)"] does not pass, its missing_tags is
\* ["(function_1)"] and it has at least two issues; and every verdict on a
\* conversation in which a required marker is not found has passed = false,
\* whatever its score and its issues.
C16_MissingMarkerFails ==
    Called =>
        /\ (/\ call_args.conversation = poor_conversation
            /\ call_args.required_tags = << "(function_1)" >>) =>
              /\ ~call_result.passed
              /\ call_result.missing_tags = << "(function_1)" >>
              /\ Len(call_result.issues) >= 2
        /\ MarkerNotFound => ~call_result.passed

\* a conversation that fails on a missing marker alone: its score is at
\* least 0.6 and it has no issue
C16_Witness ==
    /\ Called
    /\ call_args.conversation = good_conversation
    /\ call_args.required_tags = << "(function_1)", "(callback)" >>
    /\ MarkerNotFound
    /\ AtLeastSixTenths(call_result.quality_score)
    /\ call_result.issues = << >>
    /\ ~call_result.passed

-----------------------------------------------------------------------------
(* Roles in the output                                                     *)

\* the roles the generation prompt asks for
Roles == { "assistant", "user" }

RolesOf(conversation) ==
    { conversation[i].role : i \in 1..Len(conversation) }

\* C17: every turn of the conversation generate_with_retry returns, and of
\* every conversation stored in a record, has the role "assistant" or
\* "user".
C17_RolesRestricted ==
    /\ (batch_pc = "generating" /\ pc = "returned") =>
            RolesOf(ret.conversation) \subseteq Roles
    /\ \A k \in 1..Len(all_conversations) :
            RolesOf(all_conversations[k].conversation) \subseteq Roles

-----------------------------------------------------------------------------
(* The range of the quality score                                          *)

\* C18: the quality_score of every verdict is at least 0.0 and at most 1.0,
\* for the empty conversation, for conversations of fewer than 3 and of
\* more than 30 turns, and for conversations with several red flags.
C18_ScoreInUnitInterval ==
    Called =>
        /\ call_result.quality_score.d > 0
        /\ 0 <= call_result.quality_score.n
        /\ call_result.quality_score.n <= call_result.quality_score.d

\* six red flags: the penalty of 1.8 exceeds the base score and the score
\* is cut off at 0.0
C18_Witness ==
    /\ Called
    /\ call_args.conversation = red_flag_conversation
    /\ RLeq(Rat(1, 1), _check_red_flags(call_args.conversation))
    /\ call_result.quality_score = Rat(0, 1)

-----------------------------------------------------------------------------
(* Directives of the retry block                                           *)

TooShortIssue == "Conversation too short (less than 4 exchanges)"

TurnCountDirective == "REQUIREMENT: Generate at least 6-8 message exchanges"

\* C19: whenever the verdict of an attempt that is followed by another one
\* does not pass and its issues include the too-short issue, the block
\* appended for the next attempt contains the directive to generate at
\* least 6-8 message exchanges.
C19_TooShortDirective ==
    \A k \in 1..(Len(log) - 1) :
        (/\ Validated(k)
         /\ ~log[k].verdict.passed
         /\ InList(TooShortIssue, log[k].verdict.issues)) =>
            Contains(Block(k), TurnCountDirective)

\* C20: after every verdict that does not pass, on an attempt that is
\* followed by another one, the prompt of the next attempt is the previous
\* prompt followed by a non-empty block that carries the retry header; this
\* includes a verdict that fails on its issue count alone.
C20_EveryFailureAugmented ==
    \A k \in 1..(Len(log) - 1) :
        (Validated(k) /\ ~log[k].verdict.passed) =>
            /\ StartsWith(log[k + 1].prompt, log[k].prompt)
            /\ Len(Block(k)) > 0
            /\ Contains(Block(k), RetryHeader)

-----------------------------------------------------------------------------
(* The scoring formula                                                     *)

Range(seq) == { seq[i] : i \in 1..Len(seq) }

\* C21: the quality score of a non-empty conversation is the mean of the
\* four category scores and the structural score, minus 0.3 for each
\* red-flag string in the text, cut off at 0 and at 1.  A category score is
\* min(1, indicators found / (category size * 0.3)); the structural score is
\* 0.2 below 3 turns, 0.7 above 30 turns, and otherwise the average of the
\* alternation score (0.5 when the first role is not the agent, else
\* 1 - adjacent repeats / turns) and the length score (1 - the share of
\* turns shorter than 10 or longer than 500 characters).
C21_ScoreFormula ==
    (Called /\ Len(call_args.conversation) > 0) =>
        LET c == call_args.conversation
            n == Len(c)
            text == FullText(c)
            hits(words) == Cardinality({w \in Range(words) : Contains(text, w)})
            category(k) ==
                LET size == Len(quality_indicators[k])
                    share == Rat(10 * hits(quality_indicators[k]), 3 * size)
                IN  IF RLeq(Rat(1, 1), share) THEN Rat(1, 1) ELSE share
            repeats == Cardinality({i \in 2..n : c[i].role = c[i - 1].role})
            alternation == IF c[1].role # "assistant" THEN Rat(1, 2)
                           ELSE Rat(n - repeats, n)
            odd == Cardinality({i \in 1..n : \/ Len(c[i].content) < 10
                                              \/ Len(c[i].content) > 500})
            structural == IF n < 3 THEN Rat(2, 10)
                          ELSE IF n > 30 THEN Rat(7, 10)
                          ELSE RDiv(RAdd(alternation, Rat(n - odd, n)), Rat(2, 1))
            mean == RDiv(RAdd(RAdd(category(1), category(2)),
                              RAdd(RAdd(category(3), category(4)), structural)),
                         Rat(5, 1))
            raw == RSub(mean, Rat(3 * hits(red_flags), 10))
        IN  call_result.quality_score =
                IF RLeq(raw, Rat(0, 1)) THEN Rat(0, 1)
                ELSE IF RLeq(Rat(1, 1), raw) THEN Rat(1, 1)
                ELSE raw

\* a score in which every term of the formula takes part: two role
\* repeats, one over-long and one short turn, one red flag
C21_Witness ==
    /\ Called
    /\ call_args.conversation = repeated_role_conversation
    /\ _check_red_flags(call_args.conversation) = Rat(3, 10)
    /\ call_result.quality_score = Rat(331, 1050)

-----------------------------------------------------------------------------
(* The issue checks                                                        *)

\* C22: for a non-empty conversation each of the four generic issues is in
\* the issues list exactly when its own condition holds: "N empty messages
\* found" iff N >= 1 turns are empty or blank, the too-short issue iff there
\* are fewer than 4 turns, the introduction issue iff the first turn holds
\* neither "cleargrid" nor "salma" in any letter case, the abrupt-ending
\* issue iff the last turn has fewer than 20 characters.
C22_GenericIssuesIndependent ==
    (Called /\ Len(call_args.conversation) > 0) =>
        LET c == call_args.conversation
            issues == Range(call_result.issues)
            blank == Cardinality({i \in 1..Len(c) : IsBlank(c[i].content)})
            first == Lower(c[1].content)
        IN  /\ \A N \in 0..Len(c) :
                  (ToString(N) \o " empty messages found") \in issues
                      <=> (N >= 1 /\ N = blank)
            /\ TooShortIssue \in issues <=> Len(c) < 4
            /\ "Agent introduction missing or incomplete" \in issues
                  <=> (~Contains(first, "cleargrid") /\ ~Contains(first, "salma"))
            /\ "Conversation ending seems abrupt" \in issues
                  <=> Len(c[Len(c)].content) < 20

\* three of the four issues in one verdict
C22_Witness ==
    /\ Called
    /\ call_args.conversation = poor_conversation
    /\ call_args.scenario_type = ""
    /\ call_result.issues =
          << TooShortIssue, "Agent introduction missing or incomplete",
             "Conversation ending seems abrupt" >>

\* the four categories of _check_scenario_specific_issues in the order of
\* its branches: the substring of the scenario id, the words of which the
\* text needs one, and the issue
Categories ==
    << [key |-> "wrong_person", words |-> {"transfer", "wrong"},
        issue |-> "Wrong person scenario should mention transfer or wrong person"],
       [key |-> "hostile", words |-> {"angry", "upset", "frustrated"},
        issue |-> "Hostile scenario should show customer anger or frustration"],
       [key |-> "payment_willing", words |-> {"pay", "payment"},
        issue |-> "Payment willing scenario should discuss payment"],
       [key |-> "legal", words |-> {"legal", "attorney", "lawyer"},
        issue |-> "Legal scenario should mention legal terms"] >>

LacksWords(k) ==
    \A w \in Categories[k].words :
        ~Contains(FullText(call_args.conversation), w)

InCategory(k) == Contains(call_args.scenario_type, Categories[k].key)

\* C23 as stated: for every category whose substring the scenario id
\* contains, the category's issue is reported when the text has none of the
\* category's words; and no issue is reported for a category whose
\* substring the id does not contain.
C23_CategoryChecks ==
    (Called /\ Len(call_args.conversation) > 0) =>
        \A k \in 1..Len(Categories) :
            /\ (InCategory(k) /\ LacksWords(k)) =>
                    Categories[k].issue \in Range(call_result.issues)
            /\ ~InCategory(k) =>
                    Categories[k].issue \notin Range(call_result.issues)

\* C23 amended: only the first category, in the order wrong_person, hostile,
\* payment_willing, legal, whose substring the scenario id contains is
\* checked; its issue is reported exactly when the text has none of its
\* words, and no issue of any other category is reported.
C23_FirstCategoryChecked ==
    (Called /\ Len(call_args.conversation) > 0) =>
        \A k \in 1..Len(Categories) :
            Categories[k].issue \in Range(call_result.issues) <=>
                /\ InCategory(k)
                /\ \A j \in 1..(k - 1) : ~InCategory(j)
                /\ LacksWords(k)

\* an id of two categories: the text meets the first and lacks the words of
\* the second, and no category issue is reported
C23_Witness ==
    /\ Called
    /\ call_args.conversation = wrong_person_conversation
    /\ InCategory(1) /\ InCategory(2)
    /\ ~LacksWords(1) /\ LacksWords(2)
    /\ \A k \in 1..Len(Categories) :
          Categories[k].issue \notin Range(call_result.issues)

-----------------------------------------------------------------------------
(* Marker detection                                                        *)

\* C24: a known marker "(k)" is in found_tags exactly when the lower-cased
\* text of some turn contains "(k)", or "<k>", or k after a space, or k
\* before a space, or starts with k, or ends with k; and found_tags holds
\* known markers only.
C24_LooseMarkerMatching ==
    Called =>
        LET c == call_args.conversation
            n(k) == Len(k)
            matches(k, text) ==
                \/ Contains(text, "(" \o k \o ")")
                \/ Contains(text, "<" \o k \o ">")
                \/ Contains(text, " " \o k)
                \/ Contains(text, k \o " ")
                \/ (Len(text) >= n(k) /\ SubSeq(text, 1, n(k)) = k)
                \/ (Len(text) >= n(k)
                      /\ SubSeq(text, Len(text) - n(k) + 1, Len(text)) = k)
        IN  /\ call_result.found_tags \subseteq Range(special_tags)
            /\ \A k \in {"disconnect", "transfer", "function_1", "function_2",
                          "hold", "mute", "conference", "callback", "escalate"} :
                  ("(" \o k \o ")") \in call_result.found_tags <=>
                      \E i \in 1..Len(c) : matches(k, Lower(c[i].content))

\* five markers found in forms without parentheses, one in parentheses inside
\* a word, and "callback" inside a word not found
C24_Witness ==
    /\ Called
    /\ call_args.conversation = loose_marker_conversation
    /\ call_result.found_tags =
          { "(conference)", "(mute)", "(escalate)", "(hold)", "(function_2)" }

-----------------------------------------------------------------------------
(* The prompt builder                                                      *)

PromptCalled == "variation" \in DOMAIN builder_call

\* text with the given tokens replaced at once, in one pass from the left:
\* the leftmost place where a token starts is replaced, and the pass goes on
\* behind it
RECURSIVE Rewritten(_, _)
Rewritten(text, subst) ==
    LET at(i) == {k \in 1..Len(subst) :
                     /\ i + Len(subst[k].token) - 1 <= Len(text)
                     /\ SubSeq(text, i, i + Len(subst[k].token) - 1)
                            = subst[k].token}
        starts == {i \in 1..Len(text) : at(i) # {}}
    IN  IF starts = {} THEN text
        ELSE LET i == CHOOSE x \in starts : \A y \in starts : x <= y
                 k == CHOOSE x \in at(i) : TRUE
             IN  SubSeq(text, 1, i - 1) \o subst[k].value
                 \o Rewritten(SubSeq(text, i + Len(subst[k].token), Len(text)),
                              subst)

\* the first and the last word of the customer name; a name of one word is
\* the first name and there is no last name
FirstName(name) == IF Contains(name, " ") THEN Split(name)[1] ELSE name

LastName(name) == IF Contains(name, " ") THEN Split(name)[Len(Split(name))] ELSE ""

\* the scenario-instructions block follows the substituted template and
\* names the scenario
BlockAppended(template_part) ==
    LET scenario == builder_call.scenario
        block == SubSeq(builder_result, Len(template_part) + 1,
                        Len(builder_result))
    IN  /\ StartsWith(builder_result, template_part)
        /\ StartsWith(block, "\n\n## SCENARIO-SPECIFIC INSTRUCTIONS")
        /\ Contains(block, "**Scenario Type:** " \o scenario.name \o "\n")
        /\ Contains(block, "**Description:** " \o scenario.description \o "\n")
        /\ Contains(block, "**Customer Behavior:** "
                             \o scenario.customer_behavior \o "\n")
        /\ Contains(block, "**Expected Outcome:** " \o scenario.outcome \o "\n")
        /\ Contains(block, "**Required Special Tags:** "
                             \o Join(", ", scenario.special_tags) \o "\n")

\* C25 as stated: the result is the template with the first-name,
\* last-name, amount, due-date and agent-name tokens replaced by the values
\* of the request and every other character of the template kept, followed
\* by the scenario-instructions block with the scenario's name, description,
\* behaviour, outcome and comma-joined markers.
C25_LiteralSubstitution ==
    PromptCalled =>
        LET v == builder_call.variation
        IN  BlockAppended(
                Rewritten(builder_call.base_prompt,
                    << [token |-> "{FirstName}", value |-> FirstName(v.customer_name)],
                       [token |-> "{LastName}", value |-> LastName(v.customer_name)],
                       [token |-> "{amount}", value |-> v.debt_amount],
                       [token |-> "{DueDate}", value |-> v.due_date],
                       [token |-> "Salma", value |-> v.agent_name] >>))

\* C25 amended: the tokens are replaced one after the other, each in the
\* result of the replacement before it, in the order first name, last name,
\* amount, due date and then every "Salma" by the agent name; text that a
\* replacement put in is rewritten by the later ones.  The block follows as
\* stated.
C25_SequentialSubstitution ==
    PromptCalled =>
        LET v == builder_call.variation
            one(token, value) == << [token |-> token, value |-> value] >>
            r1 == Rewritten(builder_call.base_prompt,
                            one("{FirstName}", FirstName(v.customer_name)))
            r2 == Rewritten(r1, one("{LastName}", LastName(v.customer_name)))
            r3 == Rewritten(r2, one("{amount}", v.debt_amount))
            r4 == Rewritten(r3, one("{DueDate}", v.due_date))
        IN  BlockAppended(Rewritten(r4, one("Salma", v.agent_name)))

\* a customer whose first name is rewritten to the agent's name
C25_Witness ==
    /\ PromptCalled
    /\ builder_call.variation.customer_name = "Salma Khalili"
    /\ builder_call.variation.agent_name = "Ahmed"
    /\ builder_call.base_prompt \in BasePrompts
    /\ StartsWith(builder_result,
                  "You are Ahmed from ClearGrid. Call Ahmed Khalili about ")
    /\ Contains(builder_result, "for {Product}. Ahmed stays polite.")

-----------------------------------------------------------------------------
(* C26: format conversion and the order of turns                           *)

ConvertCalled(format) ==
    /\ convert_call # << >>
    /\ convert_call.format = format

\* the records of a conversion that have messages
ConvertedRecords ==
    SelectSeq(convert_call.conversations,
              LAMBDA conv : conv.conversation # << >>)

\* entry e quotes the user turn at position j of conv and answers with the
\* assistant turn right after it
PairsResponse(e, conv, j) ==
    /\ conv.conversation[j].role = "user"
    /\ e.instruction = convert_call.system_prompt \o "\n\nCustomer: "
                       \o conv.conversation[j].content
    /\ conv.conversation[j + 1].role = "assistant"
    /\ e.output = conv.conversation[j + 1].content

AlpacaOutputsRespond ==
    ConvertCalled("alpaca") =>
        \A i \in 1..Len(convert_result) :
            \E k \in 1..Len(ConvertedRecords) :
                /\ ConvertedRecords[k].scenario_id =
                        convert_result[i].metadata.scenario_id
                /\ \E j \in 1..(Len(ConvertedRecords[k].conversation) - 1) :
                        PairsResponse(convert_result[i], ConvertedRecords[k], j)

\* the entries of a record are numbered 1, 2, ... in the order of its turns
AlpacaTurnsNumbered ==
    ConvertCalled("alpaca") =>
        \A i \in 1..Len(convert_result) :
            \/ convert_result[i].metadata.turn_number = 1
            \/ /\ i > 1
               /\ convert_result[i].metadata.scenario_id =
                        convert_result[i - 1].metadata.scenario_id
               /\ convert_result[i].metadata.turn_number =
                        convert_result[i - 1].metadata.turn_number + 1

\* the texts of the user and assistant turns of a conversation, in order
KeptContents(conversation) ==
    LET kept == SelectSeq(conversation,
                          LAMBDA msg : msg.role \in {"user", "assistant"})
    IN  [k \in 1..Len(kept) |-> kept[k].content]

ChatOrderPreserved ==
    /\ ConvertCalled("sharegpt") =>
        /\ Len(convert_result) = Len(ConvertedRecords)
        /\ \A k \in 1..Len(convert_result) :
            LET out == Tail(convert_result[k].conversations)
            IN  [n \in 1..Len(out) |-> out[n].value]
                    = KeptContents(ConvertedRecords[k].conversation)
    /\ ConvertCalled("chatml") =>
        /\ Len(convert_result) = Len(ConvertedRecords)
        /\ \A k \in 1..Len(convert_result) :
            LET out == Tail(convert_result[k].messages)
            IN  [n \in 1..Len(out) |-> out[n].content]
                    = KeptContents(ConvertedRecords[k].conversation)

\* C26: every Alpaca entry's output is the assistant turn that follows the
\* user turn quoted in its instruction, the entries of a record are numbered
\* 1, 2, ... in conversation order, and the ShareGPT and ChatML conversions
\* keep the order of the turns of each conversation.
C26_AlpacaPairsResponse ==
    /\ AlpacaOutputsRespond
    /\ AlpacaTurnsNumbered
    /\ ChatOrderPreserved

-----------------------------------------------------------------------------
(* C27: the returned conversation and the returned verdict                 *)

\* the verdict is the one of validating the conversation with the call's
\* required_tags and scenario_type
VerdictOf(pair) ==
    /\ ~ValidationRaises(pair.conversation)
    /\ pair.validation_result =
            validator[pair.conversation, required_tags, scenario_type]

\* ([], ValidationResult(False, [], [], 0.0, ["All attempts failed"], []))
PlaceholderPair(pair) ==
    /\ pair.conversation = << >>
    /\ pair.validation_result = AllAttemptsFailed

\* the returned verdict was computed at one attempt and the returned
\* conversation was bound at a later one
CrossAttemptPair ==
    /\ pc = "returned"
    /\ \E j, k \in 1..Len(log) :
        /\ j < k
        /\ "verdict" \in DOMAIN log[j]
        /\ "conversation" \in DOMAIN log[k]
        /\ ret.validation_result = log[j].verdict
        /\ ret.conversation = log[k].conversation
        /\ log[k].conversation # log[j].conversation

-----------------------------------------------------------------------------
(* C28: red flags and the 0.6 gate                                         *)

\* the red-flag strings that occur in the lower-cased text of the turns
RedFlagsIn(conversation) ==
    {i \in 1..Len(red_flags) :
        Contains(FullText(conversation), red_flags[i])}

\* C28: a conversation whose text contains two or more distinct red-flag
\* strings never passes validation and scores at most 0.4, whatever its
\* markers, indicator words, structure and issues; with exactly one red flag
\* the score is at most 0.7.
C28_RedFlagsGate ==
    Called =>
        LET n == Cardinality(RedFlagsIn(call_args.conversation))
        IN  /\ n >= 2 =>
                /\ ~call_result.passed
                /\ RLeq(call_result.quality_score, Rat(4, 10))
            /\ n = 1 => RLeq(call_result.quality_score, Rat(7, 10))

\* the two braces of one unfilled placeholder alone fail a conversation that
\* has every marker and no issue
C28_Witness ==
    /\ Called
    /\ call_args.conversation = unfilled_placeholder_conversation
    /\ Cardinality(RedFlagsIn(call_args.conversation)) = 2
    /\ call_result.missing_tags = << >>
    /\ call_result.issues = << >>
    /\ call_result.quality_score = Rat(37, 135)
    /\ ~call_result.passed

-----------------------------------------------------------------------------
(* C29: the markers the catalog requires and the markers the validator     *)
(* knows                                                                   *)

\* a conversation whose only turn writes the given markers out
Writes(tags) == << [role |-> "assistant", content |-> Join(" ", tags)] >>

\* the scenario requires at least one marker, each required marker is known
\* to the validator in its bracketed form, and a conversation that writes
\* the markers out has none of them missing
Satisfiable(scenario) ==
    /\ Len(scenario.special_tags) > 0
    /\ \A k \in 1..Len(scenario.special_tags) :
            Bracketed(scenario.special_tags[k]) \in Range(special_tags)
    /\ MissingTags(scenario.special_tags,
                   _find_special_tags(Writes(scenario.special_tags))) = << >>

InCatalog(scenario) ==
    \E i \in 1..Len(AllScenarios) : AllScenarios[i] = scenario

\* C29: every scenario of DEBT_COLLECTION_SCENARIOS has a non-empty
\* special_tags list and every required tag, in its bracketed form, is one
\* of the validator's known special tags, so that no catalog scenario
\* requires a marker that can never be found.
C29_CatalogSatisfiable ==
    /\ \A i \in 1..Len(AllScenarios) :
            /\ Len(AllScenarios[i].special_tags) > 0
            /\ \A k \in 1..Len(AllScenarios[i].special_tags) :
                Bracketed(AllScenarios[i].special_tags[k])
                    \in Range(special_tags)
    /\ (builder_call # << >> /\ InCatalog(builder_call.scenario)) =>
            Satisfiable(builder_call.scenario)

\* a prompt-building call with the one scenario that requires (escalate)
C29_Witness ==
    /\ builder_call # << >>
    /\ InCatalog(builder_call.scenario)
    /\ builder_call.scenario.special_tags = << "(escalate)" >>
    /\ Satisfiable(builder_call.scenario)

-----------------------------------------------------------------------------
(* C30: the model calls of one variation                                   *)

\* a response generate_conversation returns from: it holds a JSON array on
\* which self._find_special_tags does not raise
Parseable(response) ==
    /\ response.kind = "json"
    /\ ~ValidationRaises(response.conversation)

\* one generator_func call of the batch: it happens inside an attempt of
\* generate_with_retry, makes between 1 and GeneratorMaxRetries model calls,
\* returns (it never raises) the array of the first parseable response, and
\* returns the empty conversation after GeneratorMaxRetries responses none
\* of which was parseable
GeneratorCallBounded ==
    model_calls' # model_calls =>
        /\ batch_pc = "generating"
        /\ pc = "attempting"
        /\ Len(log') = Len(log) + 1
        /\ model_calls' - model_calls \in 1..GeneratorMaxRetries
        /\ log'[Len(log')].outcome = "returned"
        /\ \A n \in model_calls..(model_calls' - 2) : ~Parseable(Response(n))
        /\ IF Parseable(Response(model_calls' - 1))
           THEN log'[Len(log')].conversation =
                    Response(model_calls' - 1).conversation
           ELSE /\ log'[Len(log')].conversation = << >>
                /\ model_calls' - model_calls = GeneratorMaxRetries

\* every request to the model returns or raises, so that every call of
\* generate_conversation comes back
FairSpecBatch == SpecBatch /\ WF_vars(GenerateAttempt)

\* C30: generate_conversation makes at most max_retries (3) model calls per
\* invocation, returns on the first parseable response and returns an empty
\* conversation, without raising, when all fail; generate_with_retry of
\* RetryManager(max_retries=3) makes at most 3 such invocations and has
\* returned after the third, so one variation costs at most 9 model calls,
\* and every generate_with_retry call of the batch returns.
C30_ModelCallsBounded ==
    /\ [][GeneratorCallBounded]_vars
    /\ (batch_pc = "generating") ~> (batch_pc = "generating" /\ pc = "returned")
    /\ [](batch_pc = "generating" =>
            /\ max_retries = RetryManagerMaxRetries
            /\ Len(log) <= RetryManagerMaxRetries
            /\ pc \in {"attempting", "returned"}
            /\ Len(log) = RetryManagerMaxRetries => pc = "returned"
            /\ model_calls <=
                  GeneratorMaxRetries * RetryManagerMaxRetries
                      * Len(all_conversations)
                  + GeneratorMaxRetries * Len(log))

\* the worst case: the first variation used all nine model calls and ends
\* with the empty conversation
C30_Witness ==
    /\ batch_pc = "generating"
    /\ pc = "returned"
    /\ Len(all_conversations) = 0
    /\ Len(log) = RetryManagerMaxRetries
    /\ model_calls = GeneratorMaxRetries * RetryManagerMaxRetries
    /\ ret.conversation = << >>

====
